---- MODULE Spec2Model ----
(***************************************************************************)
(* Three-source synchronisation of an Obsidian vault with an S3 bucket     *)
(* (obsidian-kisss3): SyncDecisionEngine, SyncManager.runSync and the      *)
(* SyncStateManager baseline, as a state machine.                          *)
(*                                                                         *)
(* A path is a sequence of tokens: "/" and "." stand for themselves, any   *)
(* other token is a run of characters holding neither.  An optional value  *)
(* (undefined / null in the source) is the empty set, a present value v is *)
(* the set {v}.                                                            *)
(***************************************************************************)
EXTENDS Integers, Sequences, FiniteSets, TLC

\* ---------------------------------------------------------------- bounds
MaxMtime == 2
\* runSync invocations that pass the entry guard in one behaviour
MaxRuns == 2

MTimes == 0..MaxMtime

\* Date.getSeconds() etc. in getConflictFileName format whole seconds
MsPerSecond == 1000

FileA == <<"a", ".", "md">>
FileB == <<"b", ".", "md">>
BasePaths == {FileA, FileB}
\* ".h" and "d/.h": paths with a segment that starts with a dot
HiddenTop == <<".", "h">>
HiddenNested == <<"d", "/", ".", "h">>
HiddenPaths == {HiddenTop, HiddenNested}

\* a content is named after the side that held it in the initial state
Contents == {"L", "R"}

\* ------------------------------------------------------- optional values
Undefined == {}
Some(v) == {v}
Val(o) == CHOOSE v \in o : TRUE
\* JavaScript truthiness of an optional number: undefined and 0 are falsy
Truthy(o) == o # Undefined /\ o # Some(0)
Opt(S) == {Undefined} \cup {Some(v) : v \in S}

\* Map.get: the entry of a map (a function on a set of paths) or undefined
Get(map, p) == IF p \in DOMAIN map THEN Some(map[p]) ELSE Undefined
\* Map.set / Map.delete
Put(map, p, v) == [q \in (DOMAIN map) \cup {p} |-> IF q = p THEN v ELSE map[q]]
Remove(map, p) == [q \in (DOMAIN map) \ {p} |-> map[q]]
EmptyMap == [q \in {} |-> {}]
Maps(D, V) == UNION {[S -> V] : S \in SUBSET D}

\* ------------------------------------------------------------- SyncTypes
FileStatus == {"CREATED", "MODIFIED", "DELETED", "UNCHANGED"}
SyncAction == {"UPLOAD", "DOWNLOAD", "DELETE_LOCAL", "DELETE_REMOTE",
               "CONFLICT", "DO_NOTHING"}
SyncFileState == [localMtime : Opt(MTimes), remoteMtime : Opt(MTimes)]
FileRec == [mtime : MTimes, content : Contents]

\* ------------------------------------------------------------- settings.ts
\* a text field is empty or not; remotePrefix and enableDebugLogging left out
S3SyncSettings ==
    [endpoint : {"", "x"}, region : {"", "x"}, bucketName : {"", "x"},
     accessKeyId : {"", "x"}, secretAccessKey : {"", "x"},
     syncIntervalMinutes : {0, 15}, enableAutomaticSync : BOOLEAN]

DEFAULT_SETTINGS ==
    [endpoint |-> "", region |-> "", bucketName |-> "", accessKeyId |-> "",
     secretAccessKey |-> "", syncIntervalMinutes |-> 15,
     enableAutomaticSync |-> FALSE]

\* the settings of a vault whose owner filled in the five connection fields
ConnectedSettings ==
    [endpoint |-> "x", region |-> "x", bucketName |-> "x", accessKeyId |-> "x",
     secretAccessKey |-> "x", syncIntervalMinutes |-> 15,
     enableAutomaticSync |-> FALSE]

\* plugin data: null, or its keys besides syncState (none, or the settings
\* fields) and whether it has the syncState key
PluginData == Opt([other : Opt(S3SyncSettings), hasSyncState : BOOLEAN])

VARIABLES
    vault,              \* local files: path -> [mtime, content]
    remote,             \* S3 objects: path -> [mtime, content]
    syncState,          \* persisted plugin data key "syncState": path -> SyncFileState
    running,            \* SyncManager.running
    pc,                 \* position of the run that is past the entry guard
    active,             \* number of runSync invocations past the entry guard
    rejected,           \* an "already in progress" Notice was shown during this run
    cachedLocalFiles,   \* SyncManager.cachedLocalFiles (optional map)
    cachedRemoteFiles,  \* SyncManager.cachedRemoteFiles (optional map)
    stateFiles,         \* the run's working StateFilesMap (cachedStateFiles)
    decisions,          \* the run's plan: path -> FileSyncDecision
    todo,               \* paths whose decision has not been executed yet
    conflictCopy,       \* handleConflict in flight: the conflict file it created
    executed,           \* actions this run has completed, in order
    result,             \* outcome of the last finished run
    pre,                \* vault, remote and syncState when the run passed the guard
    runs,               \* runs started so far
    settingsData,       \* the syncState that plugin.settings carries since loadSettings
    loadFailed,         \* loadState caught an error in this run and returned {}
    prevExecuted,       \* actions the run before completed, in order
    pluginData,         \* the plugin data besides the syncState value: null, or
                        \* the other keys and whether the syncState key is there
    returned,           \* what the last call made outside a run gave
    settings,           \* S3SyncPlugin.settings, the object S3Service.settings
                        \* refers to as well
    supplied,           \* the field values when S3Service was last given settings
    client,             \* S3Service.client !== null
    syncIntervalId,     \* S3SyncPlugin.syncIntervalId
    timers,             \* ids of the interval timers that are active
    timersCreated,      \* window.setInterval calls so far: the last id given out
    pendingStateLoad,   \* the getStateFilesMap of a run that has failed since
                        \* is still waiting for loadData
    folders,            \* paths of the folders the vault has loaded
    listing,            \* a listRemoteFiles call made apart from a run: the
                        \* pages the store holds and the locals of the call
    upload,             \* executeUpload past readBinary: the path, the content
                        \* read and the mtime the file had then
    deleteEvents,       \* paths whose handleLocalDelete call has not finished
    remotePrefix,       \* settings.remotePrefix, trimmed
    elsewhere,          \* S3 objects under the other key prefix: path -> object
    issued              \* requests the runs have sent: command and address

vars == <<vault, remote, syncState, running, pc, active, rejected,
          cachedLocalFiles, cachedRemoteFiles, stateFiles, decisions, todo,
          conflictCopy, executed, result, pre, runs,
          settingsData, loadFailed, prevExecuted, pluginData, returned,
          settings, supplied, client, syncIntervalId, timers, timersCreated,
          pendingStateLoad, folders, listing, upload, deleteEvents,
          remotePrefix, elsewhere, issued>>

\* the plugin object and its S3Service
pluginVars == <<settings, supplied, client, syncIntervalId, timers, timersCreated>>

\* the state outside SyncManager.runSync
\* what outlives a run besides the fields of SyncManager
\* calls of S3Service made apart from a run
apart == <<listing, upload, deleteEvents, remotePrefix, elsewhere, issued>>

rest == <<pendingStateLoad, folders, apart>>

ext == <<returned, pluginVars, rest>>

\* ------------------------------------------------------------ path names
\* String.lastIndexOf: the last position of token t in s, 0 when there is none
LastIndexOf(s, t) ==
    LET hits == {i \in 1..Len(s) : s[i] = t}
    IN  IF hits = {} THEN 0 ELSE CHOOSE i \in hits : \A j \in hits : j <= i

\* path.substring(0, path.lastIndexOf("/")): the folder a path lies in, ""
\* for a path of the vault's root
ParentPath(path) == SubSeq(path, 1, LastIndexOf(path, "/") - 1)

\* path.split("/").length
Depth(path) == Cardinality({i \in 1..Len(path) : path[i] = "/"}) + 1

\* the tokens of the model that begin with "obsidian"
ObsidianNames == {"obsidian", "obsidian-old"}

\* path.startsWith(".obsidian")
StartsWithObsidian(path) ==
    Len(path) >= 2 /\ path[1] = "." /\ path[2] \in ObsidianNames

\* variant: only the first segment is looked at
shouldIgnoreFile_FirstSegmentOnly(filePath) ==
    Len(filePath) > 0 /\ filePath[1] = "."

\* filePath.split("/").some((part) => part.startsWith("."))
shouldIgnoreFile(filePath) ==
    \E i \in 1..Len(filePath) :
        /\ filePath[i] = "."
        /\ (i = 1 \/ filePath[i - 1] = "/")

\* the YYYYMMDD-HHMMSS text of a Date: one text per whole second
ConflictStamp(mtime) == ToString(mtime \div MsPerSecond)

\* `${baseName} (conflict ${timestamp})${extension}`
getConflictFileName(originalPath, mtime) ==
    LET lastDotIndex == LastIndexOf(originalPath, ".")
        extension == IF lastDotIndex > 0
                     THEN SubSeq(originalPath, lastDotIndex, Len(originalPath))
                     ELSE <<>>
        baseName  == IF lastDotIndex > 0
                     THEN SubSeq(originalPath, 1, lastDotIndex - 1)
                     ELSE originalPath
    IN  baseName \o <<" (conflict " \o ConflictStamp(mtime) \o ")">> \o extension

\* ---------------------------------------------------- SyncDecisionEngine
\* syncState?.localMtime / syncState?.remoteMtime
StateTime(entry, isLocal) ==
    IF entry = Undefined THEN Undefined
    ELSE IF isLocal THEN Val(entry).localMtime ELSE Val(entry).remoteMtime

\* variant: a file with a baseline mtime is never MODIFIED
determineFileStatus_IgnoresMtime(file, entry, isLocal) ==
    LET stateTime == StateTime(entry, isLocal)
    IN  IF file = Undefined /\ ~Truthy(stateTime) THEN "UNCHANGED"
        ELSE IF file = Undefined /\ Truthy(stateTime) THEN "DELETED"
        ELSE IF file # Undefined /\ ~Truthy(stateTime) THEN "CREATED"
        ELSE "UNCHANGED"

determineFileStatus(file, entry, isLocal) ==
    LET stateTime == StateTime(entry, isLocal)
    IN  IF file = Undefined /\ ~Truthy(stateTime) THEN "UNCHANGED"
        ELSE IF file = Undefined /\ Truthy(stateTime) THEN "DELETED"
        ELSE IF file # Undefined /\ ~Truthy(stateTime) THEN "CREATED"
        ELSE IF Val(file).mtime > Val(stateTime) THEN "MODIFIED"
        ELSE "UNCHANGED"

\* variant: the deletion rules left out, every pair decided by mtime
resolveConflict_NoDeletionRules(localStatus, remoteStatus, localFile, remoteFile) ==
    IF /\ localFile # Undefined /\ remoteFile # Undefined
       /\ Val(localFile).mtime > Val(remoteFile).mtime THEN "UPLOAD"
    ELSE IF /\ localFile # Undefined /\ remoteFile # Undefined
            /\ Val(remoteFile).mtime > Val(localFile).mtime THEN "DOWNLOAD"
    ELSE "CONFLICT"

\* variant: >= for >, so that equal mtimes upload
resolveConflict_TieUploads(localStatus, remoteStatus, localFile, remoteFile) ==
    IF localStatus = "DELETED" /\ remoteStatus = "MODIFIED" THEN "DOWNLOAD"
    ELSE IF localStatus = "MODIFIED" /\ remoteStatus = "DELETED" THEN "UPLOAD"
    ELSE IF localStatus = "DELETED" /\ remoteStatus = "CREATED" THEN "DOWNLOAD"
    ELSE IF localStatus = "CREATED" /\ remoteStatus = "DELETED" THEN "UPLOAD"
    ELSE IF /\ localFile # Undefined /\ remoteFile # Undefined
            /\ Val(localFile).mtime >= Val(remoteFile).mtime THEN "UPLOAD"
    ELSE IF /\ localFile # Undefined /\ remoteFile # Undefined
            /\ Val(remoteFile).mtime > Val(localFile).mtime THEN "DOWNLOAD"
    ELSE "CONFLICT"

resolveConflict(localStatus, remoteStatus, localFile, remoteFile) ==
    IF localStatus = "DELETED" /\ remoteStatus = "MODIFIED" THEN "DOWNLOAD"
    ELSE IF localStatus = "MODIFIED" /\ remoteStatus = "DELETED" THEN "UPLOAD"
    ELSE IF localStatus = "DELETED" /\ remoteStatus = "CREATED" THEN "DOWNLOAD"
    ELSE IF localStatus = "CREATED" /\ remoteStatus = "DELETED" THEN "UPLOAD"
    ELSE IF /\ localFile # Undefined /\ remoteFile # Undefined
            /\ Val(localFile).mtime > Val(remoteFile).mtime THEN "UPLOAD"
    ELSE IF /\ localFile # Undefined /\ remoteFile # Undefined
            /\ Val(remoteFile).mtime > Val(localFile).mtime THEN "DOWNLOAD"
    ELSE "CONFLICT"

\* variant: a one-sided deletion deletes on the side that already lost the file
applyDecisionMatrix_SwappedDeletes(localStatus, remoteStatus, localFile, remoteFile) ==
    IF localStatus # "UNCHANGED" /\ remoteStatus = "UNCHANGED"
    THEN (IF localStatus = "DELETED" THEN "DELETE_LOCAL" ELSE "UPLOAD")
    ELSE IF localStatus = "UNCHANGED" /\ remoteStatus # "UNCHANGED"
    THEN (IF remoteStatus = "DELETED" THEN "DELETE_REMOTE" ELSE "DOWNLOAD")
    ELSE IF localStatus # "UNCHANGED" /\ remoteStatus # "UNCHANGED"
    THEN resolveConflict(localStatus, remoteStatus, localFile, remoteFile)
    ELSE "DO_NOTHING"

applyDecisionMatrix(localStatus, remoteStatus, localFile, remoteFile) ==
    IF localStatus # "UNCHANGED" /\ remoteStatus = "UNCHANGED"
    THEN (IF localStatus = "DELETED" THEN "DELETE_REMOTE" ELSE "UPLOAD")
    ELSE IF localStatus = "UNCHANGED" /\ remoteStatus # "UNCHANGED"
    THEN (IF remoteStatus = "DELETED" THEN "DELETE_LOCAL" ELSE "DOWNLOAD")
    ELSE IF localStatus # "UNCHANGED" /\ remoteStatus # "UNCHANGED"
    THEN resolveConflict(localStatus, remoteStatus, localFile, remoteFile)
    ELSE IF localStatus = "DELETED" /\ remoteStatus # "UNCHANGED"
    THEN (IF remoteStatus = "DELETED" THEN "DO_NOTHING" ELSE "DOWNLOAD")
    ELSE IF remoteStatus = "DELETED" /\ localStatus # "UNCHANGED"
    THEN (IF localStatus = "DELETED" THEN "DO_NOTHING" ELSE "UPLOAD")
    ELSE "DO_NOTHING"

analyzeFile(filePath, localFiles, remoteFiles, states) ==
    LET localFile    == Get(localFiles, filePath)
        remoteFile   == Get(remoteFiles, filePath)
        entry        == Get(states, filePath)
        localStatus  == determineFileStatus(localFile, entry, TRUE)
        remoteStatus == determineFileStatus(remoteFile, entry, FALSE)
    IN  [filePath     |-> filePath,
         localStatus  |-> localStatus,
         remoteStatus |-> remoteStatus,
         action       |-> applyDecisionMatrix(localStatus, remoteStatus,
                                              localFile, remoteFile)]

\* variant: the keys of the state map are left out
generateSyncDecisions_SkipsStateKeys(localFiles, remoteFiles, states) ==
    LET allFilePaths == (DOMAIN localFiles) \cup (DOMAIN remoteFiles)
    IN  [p \in allFilePaths |-> analyzeFile(p, localFiles, remoteFiles, states)]

\* one decision per path of the union of the three key sets
generateSyncDecisions(localFiles, remoteFiles, states) ==
    LET allFilePaths == (DOMAIN localFiles) \cup (DOMAIN remoteFiles)
                            \cup (DOMAIN states)
    IN  [p \in allFilePaths |-> analyzeFile(p, localFiles, remoteFiles, states)]

\* ------------------------------------------------- SyncManager: the maps
generateLocalFilesMap ==
    [p \in {q \in DOMAIN vault : ~shouldIgnoreFile(q)} |->
        [mtime |-> vault[p].mtime]]

\* S3Service.listRemoteFiles filtered again by generateRemoteFilesMap
generateRemoteFilesMap ==
    [p \in {q \in DOMAIN remote : ~shouldIgnoreFile(q)} |->
        [mtime |-> remote[p].mtime, key |-> p]]

\* SyncStateManager.loadState filtered by generateStateFilesMap
generateStateFilesMap ==
    [p \in {q \in DOMAIN syncState : ~shouldIgnoreFile(q)} |-> syncState[p]]


\* ------------------------------------------ S3Service.listRemoteFiles
\* no call has been made
NoListing ==
    [prefix |-> <<>>, pages |-> <<>>, at |-> "none", remoteFiles |-> EmptyMap,
     continuationToken |-> Undefined, isTruncated |-> FALSE,
     requests |-> <<>>, result |-> Undefined]

\* --------------------------------------------------------- initial state
Idle ==
    /\ running = FALSE
    /\ pc = "idle"
    /\ active = 0
    /\ rejected = FALSE
    /\ cachedLocalFiles = Undefined
    /\ cachedRemoteFiles = Undefined
    /\ stateFiles = Undefined
    /\ decisions = EmptyMap
    /\ todo = {}
    /\ conflictCopy = Undefined
    /\ executed = <<>>
    /\ result = "none"
    /\ pre = Undefined
    /\ loadFailed = FALSE
    /\ prevExecuted = <<>>
    /\ pendingStateLoad = FALSE
    /\ listing = NoListing
    /\ upload = Undefined
    /\ deleteEvents = {}
    /\ remotePrefix = ""
    /\ elsewhere = EmptyMap
    /\ issued = {}

\* the vault has loaded the folders its files lie in, and no other
OnlyFoldersOfFiles ==
    folders = {ParentPath(p) : p \in DOMAIN vault} \ {<<>>}

\* S3SyncPlugin and S3Service after onload with the five connection fields
\* set and automatic sync off: a client, no timer
Connected ==
    /\ settings = ConnectedSettings
    /\ supplied = settings
    /\ client = TRUE
    /\ syncIntervalId = Undefined
    /\ timers = {}
    /\ timersCreated = 0

\* the plugin data holds the settings and a syncState key; no call of the
\* state manager has been made outside a run
Installed ==
    /\ pluginData = Some([other |-> Some(ConnectedSettings), hasSyncState |-> TRUE])
    /\ returned = Undefined
    /\ Connected
    /\ OnlyFoldersOfFiles

\* Any local file, remote object and persisted baseline entry of one path;
\* the entry may lack one mtime (legacy or hand-edited data).
Init ==
    /\ vault \in Maps({FileA}, [mtime : MTimes, content : {"L"}])
    /\ remote \in Maps({FileA}, [mtime : MTimes, content : {"R"}])
    /\ syncState \in Maps({FileA},
           {e \in SyncFileState :
                e.localMtime # Undefined \/ e.remoteMtime # Undefined})
    /\ Idle
    /\ Installed
    /\ runs = 0
    /\ settingsData = syncState

\* Two paths, changed out of band since a baseline that earlier successful
\* runs saved (both mtimes set, written by clocks past the epoch); one more
\* run follows.
InitTwo ==
    /\ vault \in Maps(BasePaths, [mtime : MTimes \ {0}, content : {"L"}])
    /\ remote \in Maps(BasePaths, [mtime : MTimes \ {0}, content : {"R"}])
    /\ syncState \in Maps(BasePaths,
           [localMtime  : {Some(m) : m \in MTimes \ {0}},
            remoteMtime : {Some(m) : m \in MTimes \ {0}}])
    /\ Idle
    /\ Installed
    /\ runs = MaxRuns - 1
    /\ settingsData = syncState

\* One path in any state (as in Init) next to a second path that was synced
\* at time 1 and has since been deleted on one side, on both or on none; one
\* run follows.
InitDelete ==
    /\ vault \in {v \in Maps(BasePaths, [mtime : MTimes, content : {"L"}]) :
                      FileB \in DOMAIN v => v[FileB].mtime = 1}
    /\ remote \in {r \in Maps(BasePaths, [mtime : MTimes, content : {"R"}]) :
                      FileB \in DOMAIN r => r[FileB].mtime = 1}
    /\ syncState \in {st \in Maps(BasePaths, SyncFileState) :
                      /\ FileB \in DOMAIN st
                      /\ st[FileB] = [localMtime |-> Some(1), remoteMtime |-> Some(1)]
                      /\ FileA \in DOMAIN st =>
                            (st[FileA].localMtime # Undefined
                                \/ st[FileA].remoteMtime # Undefined)}
    /\ Idle
    /\ Installed
    /\ runs = MaxRuns - 1
    /\ settingsData = syncState

\* One visible path changed out of band since a complete baseline, next to
\* hidden paths that may be in the vault, in the bucket and in the plugin
\* data; one run follows.
InitHidden ==
    /\ vault \in {v \in Maps({FileA} \cup HiddenPaths,
                                [mtime : MTimes \ {0}, content : {"L"}]) :
                      \A h \in HiddenPaths \cap DOMAIN v : v[h].mtime = 1}
    /\ remote \in {r \in Maps({FileA} \cup HiddenPaths,
                                 [mtime : MTimes \ {0}, content : {"R"}]) :
                      \A h \in HiddenPaths \cap DOMAIN r : r[h].mtime = 1}
    /\ syncState \in {st \in Maps({FileA} \cup HiddenPaths,
                                    [localMtime  : {Some(m) : m \in MTimes \ {0}},
                                     remoteMtime : {Some(m) : m \in MTimes \ {0}}]) :
                      \A h \in HiddenPaths \cap DOMAIN st :
                          st[h] = [localMtime |-> Some(1), remoteMtime |-> Some(1)]}
    /\ Idle
    /\ Installed
    /\ runs = MaxRuns - 1
    /\ settingsData = syncState

\* ---------------------------------------------------------- S3Service
\* variant: the bucket name is not looked at
initializeClient_IgnoresBucket(s) ==
    /\ s.endpoint # ""
    /\ s.region # ""
    /\ s.accessKeyId # ""
    /\ s.secretAccessKey # ""

\* initializeClient: a client is made when the five fields are truthy
initializeClient(s) ==
    /\ s.endpoint # ""
    /\ s.region # ""
    /\ s.accessKeyId # ""
    /\ s.secretAccessKey # ""
    /\ s.bucketName # ""

isConfigured == client

\* the methods of S3Service that send a request to the store
S3Methods == {"listRemoteFiles", "uploadFile", "downloadFile",
              "deleteRemoteFile", "getFileMetadata"}

\* ------------------------------------------------ SyncManager.runSync
\* variant: the entry guard left out
AlreadyRunning_NoGuard == FALSE

\* if (this.running) { new Notice(...); return; }
AlreadyRunning == running

RunSyncRejected ==
    /\ AlreadyRunning
    /\ rejected' = TRUE
    /\ UNCHANGED <<vault, remote, syncState, running, pc, active,
                   cachedLocalFiles, cachedRemoteFiles, stateFiles, decisions,
                   todo, conflictCopy, executed, result, pre, runs,
                   settingsData, loadFailed, prevExecuted, pluginData, ext>>

RunSyncAccepted ==
    /\ ~AlreadyRunning
    /\ isConfigured
    /\ runs < MaxRuns
    /\ runs' = runs + 1
    /\ running' = TRUE
    /\ active' = active + 1
    /\ pc' = "maps"
    /\ rejected' = FALSE
    /\ pre' = Some([vault |-> vault, remote |-> remote, syncState |-> syncState])
    /\ UNCHANGED <<vault, remote, syncState, cachedLocalFiles,
                   cachedRemoteFiles, stateFiles, decisions, todo,
                   conflictCopy, executed, result, settingsData,
                   loadFailed, prevExecuted, pluginData, ext>>

\* variant: the catch block saves the progress made so far
Throw_SavesProgress ==
    /\ pc' = "failed"
    /\ syncState' = IF stateFiles = Undefined THEN syncState
                    ELSE [p \in {q \in DOMAIN Val(stateFiles) :
                                   /\ Val(stateFiles)[q].localMtime # Undefined
                                   /\ Val(stateFiles)[q].remoteMtime # Undefined}
                              |-> Val(stateFiles)[p]]
    /\ UNCHANGED <<running, active, rejected, cachedLocalFiles,
                   cachedRemoteFiles, stateFiles, decisions, todo, executed,
                   result, pre, runs,
                   settingsData, loadFailed, prevExecuted, pluginData, ext>>

\* a collaborator call throws: control goes to the catch block
Throw ==
    /\ pc' = "failed"
    /\ UNCHANGED <<running, active, rejected, cachedLocalFiles,
                   cachedRemoteFiles, stateFiles, decisions, todo, executed,
                   result, pre, syncState, runs,
                   settingsData, loadFailed, prevExecuted, pluginData, ext>>

\* get*FilesMap: if (this.cached) return this.cached; else generate and cache
Cached(cache, generated) == IF cache # Undefined THEN cache ELSE Some(generated)

\* Step 1: the three maps
GenerateMaps ==
    /\ pc = "maps"
    /\ cachedLocalFiles' = Cached(cachedLocalFiles, generateLocalFilesMap)
    /\ cachedRemoteFiles' = Cached(cachedRemoteFiles, generateRemoteFilesMap)
    /\ stateFiles' = Cached(stateFiles, generateStateFilesMap)
    /\ pc' = "plan"
    /\ UNCHANGED <<vault, remote, syncState, running, active, rejected,
                   decisions, todo, conflictCopy, executed, result, pre, runs,
                   settingsData, loadFailed, prevExecuted, pluginData, ext>>

\* s3Service.listRemoteFiles throws
ListRemoteFails ==
    /\ pc = "maps"
    /\ Throw
    /\ UNCHANGED <<vault, remote, conflictCopy>>

\* loadState catches the error of plugin.loadData and returns {}: the run
\* goes on with an empty StateFilesMap
LoadStateFails ==
    /\ pc = "maps"
    /\ stateFiles = Undefined
    /\ cachedLocalFiles' = Cached(cachedLocalFiles, generateLocalFilesMap)
    /\ cachedRemoteFiles' = Cached(cachedRemoteFiles, generateRemoteFilesMap)
    /\ stateFiles' = Some(EmptyMap)
    /\ loadFailed' = TRUE
    /\ pc' = "plan"
    /\ UNCHANGED <<vault, remote, syncState, running, active, rejected,
                   decisions, todo, conflictCopy, executed, result, pre, runs,
                   settingsData, prevExecuted, pluginData, ext>>

\* Step 2: the plan
Plan ==
    /\ pc = "plan"
    /\ decisions' = generateSyncDecisions(Val(cachedLocalFiles),
                        Val(cachedRemoteFiles), Val(stateFiles))
    /\ todo' = {p \in DOMAIN decisions' : decisions'[p].action # "DO_NOTHING"}
    /\ pc' = "exec"
    /\ UNCHANGED <<vault, remote, syncState, running, active, rejected,
                   cachedLocalFiles, cachedRemoteFiles, stateFiles,
                   conflictCopy, executed, result, pre, runs,
                   settingsData, loadFailed, prevExecuted, pluginData, ext>>

\* variant: the delete loop placed first
PhaseOf_DeletesFirst(action) ==
    CASE action \in {"DELETE_LOCAL", "DELETE_REMOTE"} -> 1
      [] action = "DOWNLOAD" -> 2
      [] action = "UPLOAD" -> 3
      [] action = "CONFLICT" -> 4

\* Step 3: executeSyncDecisions runs downloads, uploads, deletes, conflicts
PhaseOf(action) ==
    CASE action = "DOWNLOAD" -> 1
      [] action = "UPLOAD" -> 2
      [] action \in {"DELETE_LOCAL", "DELETE_REMOTE"} -> 3
      [] action = "CONFLICT" -> 4

\* decision p is next: nothing of an earlier loop is left
Next_In_Order(p) ==
    \A q \in todo : PhaseOf(decisions[q].action) >= PhaseOf(decisions[p].action)

Ready(p, actions) ==
    /\ pc = "exec"
    /\ conflictCopy = Undefined
    /\ p \in todo
    /\ decisions[p].action \in actions
    /\ Next_In_Order(p)

\* variant: the plan is computed again from the working map after each action
Completed_Replans(p) ==
    /\ todo' = todo \ {p}
    /\ executed' = Append(executed, <<p, decisions[p].action>>)
    /\ decisions' = generateSyncDecisions(Val(cachedLocalFiles),
                        Val(cachedRemoteFiles), Val(stateFiles))
    /\ UNCHANGED <<running, pc, active, rejected, cachedLocalFiles,
                   cachedRemoteFiles, result, pre, syncState, runs,
                   settingsData, loadFailed, prevExecuted, pluginData,
                   returned, pluginVars, pendingStateLoad, apart>>

Completed(p) ==
    /\ todo' = todo \ {p}
    /\ executed' = Append(executed, <<p, decisions[p].action>>)
    /\ UNCHANGED <<running, pc, active, rejected, cachedLocalFiles,
                   cachedRemoteFiles, decisions, result, pre, syncState,
                   runs,
                   settingsData, loadFailed, prevExecuted, pluginData,
                   returned, pluginVars, pendingStateLoad, apart>>

\* ------------------------------------------------ SyncManager: folders
PluginFolder == <<".", "obsidian", "/", "plugins", "/", "kisss3">>

\* TFolder.children: the loaded folders and the files that lie in folder
Children(folder, loaded, files) ==
    {g \in loaded : ParentPath(g) = folder} \cup
    {p \in files : ParentPath(p) = folder}

\* ensureFolderExists: the folder of filePath is created when the path names
\* one and the vault has nothing there
ensureFolderExists(filePath) ==
    LET folderPath == ParentPath(filePath)
    IN  IF folderPath # <<>> /\ folderPath \notin folders
                             /\ folderPath \notin DOMAIN vault
        THEN folders \cup {folderPath}
        ELSE folders

\* the folder passes both tests of the loop and vault.delete is called on it
Prunable(folder, loaded, files) ==
    /\ Children(folder, loaded, files) = {}
    /\ ~(~StartsWithObsidian(folder) \/ folder = PluginFolder)

\* the loop over the folders, deepest first; folder.children is read when the
\* folder's turn comes, after the deeper ones were deleted.  vault.delete
\* either removes the folder or throws, which the loop ignores.  The result
\* is the set of the folder sets the loop can leave.
RECURSIVE PruneLoop(_, _, _)
PruneLoop(pending, loaded, files) ==
    IF pending = {}
    THEN {loaded}
    ELSE LET folder == CHOOSE f \in pending :
                           \A g \in pending : Depth(g) <= Depth(f)
             later  == PruneLoop(pending \ {folder}, loaded, files)
         IN  IF Prunable(folder, loaded, files)
             THEN PruneLoop(pending \ {folder}, loaded \ {folder}, files)
                      \cup later
             ELSE later

\* pruneEmptyFolders: what it can leave of the loaded folders.  A throw of
\* getAllLoadedFiles is caught and leaves them all, as does a loop in which
\* every delete throws.
pruneEmptyFolders == PruneLoop(folders, folders, DOMAIN vault)

\* the LastModified the store gives a written object: the present time, which
\* is past the epoch and not behind any object the store already holds
ServerTimes == {t \in MTimes \ {0} : \A q \in DOMAIN remote : remote[q].mtime <= t}

executeDownload(p) ==
    /\ Ready(p, {"DOWNLOAD"})
    /\ IF p \notin DOMAIN Val(cachedRemoteFiles) \/ p \notin DOMAIN remote
       THEN Throw /\ UNCHANGED <<vault, remote, conflictCopy>>
       ELSE LET remoteFile == Val(cachedRemoteFiles)[p]
            IN  /\ folders' = ensureFolderExists(p)
                /\ vault' = Put(vault, p, [mtime   |-> remoteFile.mtime,
                                           content |-> remote[p].content])
                /\ stateFiles' = Some(Put(Val(stateFiles), p,
                       [localMtime  |-> Some(vault'[p].mtime),
                        remoteMtime |-> Some(remoteFile.mtime)]))
                /\ Completed(p)
                /\ UNCHANGED <<remote, conflictCopy>>

\* variant: the local mtime is recorded as the remote one
executeUpload_RecordsLocalTime(p) ==
    /\ Ready(p, {"UPLOAD"})
    /\ IF p \notin DOMAIN vault
       THEN Throw /\ UNCHANGED <<vault, remote, conflictCopy>>
       ELSE \E actualRemoteMtime \in ServerTimes :
                /\ remote' = Put(remote, p, [mtime   |-> actualRemoteMtime,
                                             content |-> vault[p].content])
                /\ stateFiles' = Some(Put(Val(stateFiles), p,
                       [localMtime  |-> Some(vault[p].mtime),
                        remoteMtime |-> Some(vault[p].mtime)]))
                /\ Completed(p)
                /\ UNCHANGED <<vault, conflictCopy, folders>>

executeUpload(p) ==
    /\ Ready(p, {"UPLOAD"})
    /\ IF p \notin DOMAIN vault
       THEN Throw /\ UNCHANGED <<vault, remote, conflictCopy>>
       ELSE \E actualRemoteMtime \in ServerTimes :
                /\ remote' = Put(remote, p, [mtime   |-> actualRemoteMtime,
                                             content |-> vault[p].content])
                /\ stateFiles' = Some(Put(Val(stateFiles), p,
                       [localMtime  |-> Some(vault[p].mtime),
                        remoteMtime |-> Some(actualRemoteMtime)]))
                /\ Completed(p)
                /\ UNCHANGED <<vault, conflictCopy, folders>>

\* variant: a delete drops the whole entry
ClearedEntry_DropsEntry(states, p, side) == Remove(states, p)

\* stateFiles.get(path) || {}, one mtime cleared, the entry dropped when
\* neither mtime is truthy
ClearedEntry(states, p, side) ==
    LET currentState == IF p \in DOMAIN states THEN states[p]
                        ELSE [localMtime |-> Undefined, remoteMtime |-> Undefined]
        updatedState == IF side = "local"
                        THEN [localMtime  |-> Undefined,
                              remoteMtime |-> currentState.remoteMtime]
                        ELSE [localMtime  |-> currentState.localMtime,
                              remoteMtime |-> Undefined]
    IN  IF ~Truthy(updatedState.localMtime) /\ ~Truthy(updatedState.remoteMtime)
        THEN Remove(states, p)
        ELSE Put(states, p, updatedState)

executeDelete(p) ==
    /\ Ready(p, {"DELETE_LOCAL", "DELETE_REMOTE"})
    /\ IF decisions[p].action = "DELETE_LOCAL"
       THEN /\ vault' = Remove(vault, p)
            /\ stateFiles' = Some(ClearedEntry(Val(stateFiles), p, "local"))
            /\ UNCHANGED remote
       ELSE /\ remote' = Remove(remote, p)
            /\ stateFiles' = Some(ClearedEntry(Val(stateFiles), p, "remote"))
            /\ UNCHANGED vault
    /\ Completed(p)
    /\ UNCHANGED <<conflictCopy, folders>>

\* variant: the remote version is not saved before the upload
handleConflictCopy_SkipsCopy(p) ==
    /\ Ready(p, {"CONFLICT"})
    /\ IF p \notin DOMAIN vault \/ p \notin DOMAIN Val(cachedRemoteFiles)
       THEN /\ Completed(p)
            /\ UNCHANGED <<vault, remote, stateFiles, conflictCopy, folders>>
       ELSE /\ conflictCopy' = Some(p)
            /\ UNCHANGED <<vault, remote, syncState, running, pc, active,
                           rejected, cachedLocalFiles, cachedRemoteFiles,
                           stateFiles, decisions, todo, executed, result,
                           pre, runs, settingsData, loadFailed, prevExecuted, pluginData, ext>>

\* handleConflict, first half: the remote version is saved under a new name
handleConflictCopy(p) ==
    /\ Ready(p, {"CONFLICT"})
    /\ IF p \notin DOMAIN vault \/ p \notin DOMAIN Val(cachedRemoteFiles)
       THEN \* console.warn(...); return
            /\ Completed(p)
            /\ UNCHANGED <<vault, remote, stateFiles, conflictCopy, folders>>
       ELSE LET remoteFile == Val(cachedRemoteFiles)[p]
                conflictFileName == getConflictFileName(p, remoteFile.mtime)
            IN  IF p \notin DOMAIN remote \/ conflictFileName \in DOMAIN vault
                THEN \* NoSuchKey, or vault.createBinary: file already exists
                     Throw /\ UNCHANGED <<vault, remote, conflictCopy>>
                ELSE /\ vault' = Put(vault, conflictFileName,
                                     [mtime   |-> remoteFile.mtime,
                                      content |-> remote[p].content])
                     /\ conflictCopy' = Some(p)
                     /\ UNCHANGED <<remote, syncState, running, pc, active,
                                    rejected, cachedLocalFiles,
                                    cachedRemoteFiles, stateFiles, decisions,
                                    todo, executed, result, pre, runs,
                                    settingsData, loadFailed, prevExecuted, pluginData, ext>>

\* variant: the conflict copy gets a baseline entry of its own
handleConflictUpload_TracksCopy(p) ==
    /\ pc = "exec"
    /\ conflictCopy = Some(p)
    /\ \E actualRemoteMtime \in ServerTimes :
           LET alt == getConflictFileName(p, Val(cachedRemoteFiles)[p].mtime)
           IN  /\ remote' = Put(remote, p, [mtime   |-> actualRemoteMtime,
                                            content |-> vault[p].content])
               /\ stateFiles' = Some(Put(Put(Val(stateFiles), p,
                      [localMtime  |-> Some(vault[p].mtime),
                       remoteMtime |-> Some(actualRemoteMtime)]), alt,
                      [localMtime  |-> Some(vault[alt].mtime),
                       remoteMtime |-> Some(vault[alt].mtime)]))
    /\ conflictCopy' = Undefined
    /\ Completed(p)
    /\ UNCHANGED <<vault, folders>>

\* handleConflict, second half: the local version overwrites the remote one
handleConflictUpload(p) ==
    /\ pc = "exec"
    /\ conflictCopy = Some(p)
    /\ \E actualRemoteMtime \in ServerTimes :
           /\ remote' = Put(remote, p, [mtime   |-> actualRemoteMtime,
                                        content |-> vault[p].content])
           /\ stateFiles' = Some(Put(Val(stateFiles), p,
                  [localMtime  |-> Some(vault[p].mtime),
                   remoteMtime |-> Some(actualRemoteMtime)]))
    /\ conflictCopy' = Undefined
    /\ Completed(p)
    /\ UNCHANGED <<vault, folders>>

\* a download, a vault write or delete, or a PutObject / DeleteObject throws
\* before it took effect
ActionFails(p) ==
    /\ pc = "exec"
    /\ p \in todo
    /\ IF conflictCopy = Undefined THEN Next_In_Order(p) ELSE conflictCopy = Some(p)
    /\ conflictCopy' = Undefined
    /\ Throw
    /\ UNCHANGED <<vault, remote>>

\* uploadFile: PutObject succeeded and the HeadObject after it throws
UploadHeadFails(p) ==
    /\ pc = "exec"
    /\ \/ Ready(p, {"UPLOAD"})
       \/ conflictCopy = Some(p)
    /\ p \in DOMAIN vault
    /\ \E actualRemoteMtime \in ServerTimes :
           remote' = Put(remote, p, [mtime   |-> actualRemoteMtime,
                                     content |-> vault[p].content])
    /\ conflictCopy' = Undefined
    /\ Throw
    /\ UNCHANGED vault

\* ------------------------------------------------------ SyncStateManager
\* pluginData?.[SYNC_STATE_KEY], or {} when there is none
StoredState ==
    IF pluginData # Undefined /\ Val(pluginData).hasSyncState
    THEN syncState ELSE EmptyMap

\* safePluginData = pluginData ?? {}; safePluginData[SYNC_STATE_KEY] = state
WithSyncStateKey(data) ==
    IF data = Undefined
    THEN Some([other |-> Undefined, hasSyncState |-> TRUE])
    ELSE Some([Val(data) EXCEPT !.hasSyncState = TRUE])

\* the settled promise of a call: its name, its argument, the value it
\* resolved with or the message of the Error it rejected with, and the call
\* of the Plugin Data API that threw inside it, if one did
Outcome(op, arg, value, threw, failure) ==
    Some([op |-> op, arg |-> arg, value |-> value, threw |-> threw,
          failure |-> failure])

\* variant: the new entries are merged into the stored syncState
saveState_Merges(state) ==
    /\ syncState' = [p \in (DOMAIN StoredState) \cup (DOMAIN state) |->
                         IF p \in DOMAIN state THEN state[p] ELSE syncState[p]]
    /\ pluginData' = WithSyncStateKey(pluginData)
    /\ returned' = Outcome("saveState", Some(state), Undefined, "", "")
    /\ UNCHANGED <<vault, remote, running, pc, active, rejected,
                   cachedLocalFiles, cachedRemoteFiles, stateFiles, decisions,
                   todo, conflictCopy, executed, result, pre, runs,
                   settingsData, loadFailed, prevExecuted, pluginVars, rest>>

\* saveState: loadData, set the key, saveData
saveState(state) ==
    /\ syncState' = state
    /\ pluginData' = WithSyncStateKey(pluginData)
    /\ returned' = Outcome("saveState", Some(state), Undefined, "", "")
    /\ UNCHANGED <<vault, remote, running, pc, active, rejected,
                   cachedLocalFiles, cachedRemoteFiles, stateFiles, decisions,
                   todo, conflictCopy, executed, result, pre, runs,
                   settingsData, loadFailed, prevExecuted, pluginVars, rest>>

\* saveState: loadData or saveData throws, the catch block throws anew
saveStateThrows(state) ==
    /\ \E failure \in {"loadData", "saveData"} :
           returned' = Outcome("saveState", Some(state), Undefined,
                               "Failed to save sync state: ", failure)
    /\ UNCHANGED <<vault, remote, syncState, running, pc, active, rejected,
                   cachedLocalFiles, cachedRemoteFiles, stateFiles, decisions,
                   todo, conflictCopy, executed, result, pre, runs,
                   settingsData, loadFailed, prevExecuted, pluginData, pluginVars, rest>>

\* clearState: await this.saveState({})
clearState ==
    /\ syncState' = EmptyMap
    /\ pluginData' = WithSyncStateKey(pluginData)
    /\ returned' = Outcome("clearState", Undefined, Undefined, "", "")
    /\ UNCHANGED <<vault, remote, running, pc, active, rejected,
                   cachedLocalFiles, cachedRemoteFiles, stateFiles, decisions,
                   todo, conflictCopy, executed, result, pre, runs,
                   settingsData, loadFailed, prevExecuted, pluginVars, rest>>

clearStateThrows ==
    /\ \E failure \in {"loadData", "saveData"} :
           returned' = Outcome("clearState", Undefined, Undefined,
                               "Failed to save sync state: ", failure)
    /\ UNCHANGED <<vault, remote, syncState, running, pc, active, rejected,
                   cachedLocalFiles, cachedRemoteFiles, stateFiles, decisions,
                   todo, conflictCopy, executed, result, pre, runs,
                   settingsData, loadFailed, prevExecuted, pluginData, pluginVars, rest>>

\* variant: the error of loadData is passed on
loadStateCatches_Rethrows ==
    /\ returned' = Outcome("loadState", Undefined, Undefined, "loadData failed",
                           "loadData")
    /\ UNCHANGED <<vault, remote, syncState, running, pc, active, rejected,
                   cachedLocalFiles, cachedRemoteFiles, stateFiles, decisions,
                   todo, conflictCopy, executed, result, pre, runs,
                   settingsData, loadFailed, prevExecuted, pluginData, pluginVars, rest>>

\* loadState: the stored syncState, or {} when there is none
loadState ==
    /\ returned' = Outcome("loadState", Undefined, Some(StoredState), "", "")
    /\ UNCHANGED <<vault, remote, syncState, running, pc, active, rejected,
                   cachedLocalFiles, cachedRemoteFiles, stateFiles, decisions,
                   todo, conflictCopy, executed, result, pre, runs,
                   settingsData, loadFailed, prevExecuted, pluginData, pluginVars, rest>>

\* loadState: loadData throws, the catch block returns {}
loadStateCatches ==
    /\ returned' = Outcome("loadState", Undefined, Some(EmptyMap), "", "loadData")
    /\ UNCHANGED <<vault, remote, syncState, running, pc, active, rejected,
                   cachedLocalFiles, cachedRemoteFiles, stateFiles, decisions,
                   todo, conflictCopy, executed, result, pre, runs,
                   settingsData, loadFailed, prevExecuted, pluginData, pluginVars, rest>>

\* variant: every entry of the working map is saved
CompleteEntries_KeepsAll(states) == states

\* Step 4: entries with exactly one mtime, or none, are not saved
CompleteEntries(states) ==
    [p \in {q \in DOMAIN states :
                /\ states[q].localMtime # Undefined
                /\ states[q].remoteMtime # Undefined} |-> states[p]]

saveUpdatedSyncState ==
    /\ pc = "exec"
    /\ todo = {}
    /\ syncState' = CompleteEntries(Val(stateFiles))
    /\ pluginData' = WithSyncStateKey(pluginData)
    /\ folders' \in pruneEmptyFolders
    /\ pc' = "done"
    /\ UNCHANGED <<vault, remote, running, active, rejected, cachedLocalFiles,
                   cachedRemoteFiles, stateFiles, decisions, todo,
                   conflictCopy, executed, result, pre, runs,
                   settingsData, loadFailed, prevExecuted,
                   returned, pluginVars, pendingStateLoad, apart>>

\* variant: pruning is placed in a finally of the save
SaveStateFails_PrunesAnyway ==
    /\ pc = "exec"
    /\ todo = {}
    /\ pc' = "failed"
    /\ folders' \in pruneEmptyFolders
    /\ UNCHANGED <<vault, remote, conflictCopy, running, active, rejected,
                   cachedLocalFiles, cachedRemoteFiles, stateFiles, decisions,
                   todo, executed, result, pre, syncState, runs, settingsData,
                   loadFailed, prevExecuted, pluginData, returned, pluginVars,
                   pendingStateLoad, apart>>

\* stateManager.saveState throws
SaveStateFails ==
    /\ pc = "exec"
    /\ todo = {}
    /\ Throw
    /\ UNCHANGED <<vault, remote, conflictCopy>>

\* variant: the flag is reset at the end of the try block, not in finally
Finally_ResetsOnSuccessOnly ==
    /\ pc \in {"done", "failed"}
    /\ result' = IF pc = "done" THEN "success" ELSE "failed"
    /\ cachedLocalFiles' = Undefined
    /\ cachedRemoteFiles' = Undefined
    /\ stateFiles' = Undefined
    /\ running' = (pc = "failed")
    /\ active' = active - 1
    /\ pc' = "idle"
    /\ rejected' = FALSE
    /\ decisions' = EmptyMap
    /\ todo' = {}
    /\ executed' = <<>>
    /\ pre' = Undefined
    /\ loadFailed' = FALSE
    /\ prevExecuted' = executed
    /\ UNCHANGED <<vault, remote, syncState, conflictCopy, runs, settingsData,
                   pluginData, ext>>

\* finally { this.clearCachedMaps(); this.running = false; }
Finally ==
    /\ pc \in {"done", "failed"}
    /\ result' = IF pc = "done" THEN "success" ELSE "failed"
    /\ cachedLocalFiles' = Undefined
    /\ cachedRemoteFiles' = Undefined
    /\ stateFiles' = Undefined
    /\ running' = FALSE
    /\ active' = active - 1
    /\ pc' = "idle"
    /\ rejected' = FALSE
    /\ decisions' = EmptyMap
    /\ todo' = {}
    /\ executed' = <<>>
    /\ pre' = Undefined
    /\ loadFailed' = FALSE
    /\ prevExecuted' = executed
    /\ UNCHANGED <<vault, remote, syncState, conflictCopy, runs, settingsData,
                   pluginData, ext>>

Next ==
    \/ RunSyncAccepted
    \/ RunSyncRejected
    \/ GenerateMaps
    \/ ListRemoteFails
    \/ LoadStateFails
    \/ Plan
    \/ \E p \in DOMAIN decisions : executeDownload(p)
    \/ \E p \in DOMAIN decisions : executeUpload(p)
    \/ \E p \in DOMAIN decisions : executeDelete(p)
    \/ \E p \in DOMAIN decisions : handleConflictCopy(p)
    \/ \E p \in DOMAIN decisions : handleConflictUpload(p)
    \/ \E p \in DOMAIN decisions : ActionFails(p)
    \/ \E p \in DOMAIN decisions : UploadHeadFails(p)
    \/ saveUpdatedSyncState
    \/ SaveStateFails
    \/ Finally

Spec == Init /\ [][Next]_vars

SpecTwo == InitTwo /\ [][Next]_vars

SpecDelete == InitDelete /\ [][Next]_vars

SpecHidden == InitHidden /\ [][Next]_vars

\* a step of the run that is past the entry guard: the awaited call returned
\* or threw and the continuation ran
RunStep ==
    \/ GenerateMaps
    \/ ListRemoteFails
    \/ LoadStateFails
    \/ Plan
    \/ \E p \in DOMAIN decisions : executeDownload(p)
    \/ \E p \in DOMAIN decisions : executeUpload(p)
    \/ \E p \in DOMAIN decisions : executeDelete(p)
    \/ \E p \in DOMAIN decisions : handleConflictCopy(p)
    \/ \E p \in DOMAIN decisions : handleConflictUpload(p)
    \/ \E p \in DOMAIN decisions : ActionFails(p)
    \/ \E p \in DOMAIN decisions : UploadHeadFails(p)
    \/ saveUpdatedSyncState
    \/ SaveStateFails
    \/ Finally

\* One path that is or is not in the vault, in the bucket (with the same
\* mtime) and in the baseline: every action has a run that decides it.
InitLive ==
    /\ vault \in Maps({FileA}, [mtime : {1}, content : {"L"}])
    /\ remote \in Maps({FileA}, [mtime : {1}, content : {"R"}])
    /\ syncState \in Maps({FileA}, [localMtime : {Some(1)}, remoteMtime : {Some(1)}])
    /\ Idle
    /\ Installed
    /\ runs = 0
    /\ settingsData = syncState

\* every awaited collaborator call settles and the event loop resumes the run
SpecLive == InitLive /\ [][Next]_vars /\ WF_vars(RunStep)

\* ----------------------------------------------------------- S3SyncPlugin
\* bound: window.setInterval calls in one behaviour
MaxTimers == 3

\* variant: the interval that exists is not cleared first
updateSyncIntervalOf_KeepsOld(s) ==
    IF s.enableAutomaticSync /\ s.syncIntervalMinutes > 0
    THEN /\ timersCreated < MaxTimers
         /\ timersCreated' = timersCreated + 1
         /\ syncIntervalId' = Some(timersCreated + 1)
         /\ timers' = timers \cup {timersCreated + 1}
    ELSE /\ syncIntervalId' = syncIntervalId
         /\ timers' = timers
         /\ timersCreated' = timersCreated

\* updateSyncInterval with this.settings = s: the interval that exists is
\* cleared, and a new one is set when automatic sync is on
updateSyncIntervalOf(s) ==
    LET kept == timers \ syncIntervalId
    IN  IF s.enableAutomaticSync /\ s.syncIntervalMinutes > 0
        THEN /\ timersCreated < MaxTimers
             /\ timersCreated' = timersCreated + 1
             /\ syncIntervalId' = Some(timersCreated + 1)
             /\ timers' = kept \cup {timersCreated + 1}
        ELSE /\ syncIntervalId' = Undefined
             /\ timers' = kept
             /\ timersCreated' = timersCreated

updateSyncInterval ==
    /\ updateSyncIntervalOf(settings)
    /\ returned' = Outcome("updateSyncInterval", Undefined, Undefined, "", "")
    /\ UNCHANGED <<vault, remote, syncState, running, pc, active, rejected,
                   cachedLocalFiles, cachedRemoteFiles, stateFiles, decisions,
                   todo, conflictCopy, executed, result, pre, runs,
                   settingsData, loadFailed, prevExecuted, pluginData,
                   settings, supplied, client, rest>>

\* saveSettings with this.settings = s.  saveData(this.settings): the plugin
\* data is replaced by the settings object, which holds the syncState key as
\* loadSettings found it; then syncManager.updateSettings and
\* updateSyncInterval
saveSettingsOf(s) ==
    /\ syncState' = settingsData
    /\ pluginData' = Some([other |-> Some(s), hasSyncState |-> TRUE])
    /\ client' = initializeClient(s)
    /\ supplied' = s
    /\ updateSyncIntervalOf(s)
    /\ UNCHANGED <<vault, remote, running, pc, active, rejected,
                   cachedLocalFiles, cachedRemoteFiles, stateFiles, decisions,
                   todo, conflictCopy, executed, result, pre, runs,
                   settingsData, loadFailed, prevExecuted, rest>>

saveSettings ==
    /\ saveSettingsOf(settings)
    /\ UNCHANGED <<settings, returned>>

\* runs interleaved with changes of a setting in the settings tab
NextSettings ==
    \/ Next
    \/ saveSettings

SpecSettings == Init /\ [][NextSettings]_vars

\* ------------------------------------- a map load that outlives its run
\* listRemoteFiles throws while loadData has not yet returned: Promise.all
\* rejects, runSync goes to catch and finally, and getStateFilesMap is left
\* waiting.  (getLocalFilesMap awaits no I/O and has cached its map before
\* any request can fail.)
ListRemoteFailsFirst ==
    /\ pc = "maps"
    /\ stateFiles = Undefined
    /\ ~pendingStateLoad
    /\ pendingStateLoad' = TRUE
    /\ pc' = "failed"
    /\ UNCHANGED <<vault, remote, syncState, running, active, rejected,
                   cachedLocalFiles, cachedRemoteFiles, stateFiles, decisions,
                   todo, conflictCopy, executed, result, pre, runs,
                   settingsData, loadFailed, prevExecuted, pluginData,
                   returned, pluginVars, folders, apart>>

\* loadData returns to the getStateFilesMap that was left waiting:
\* this.cachedStateFiles = await this.generateStateFilesMap().  Once a later
\* run holds its own map the field is not read again before finally clears it.
PendingLoadCompletes ==
    /\ pendingStateLoad
    /\ pendingStateLoad' = FALSE
    /\ stateFiles' = IF pc \in {"failed", "idle", "maps"}
                     THEN Some(generateStateFilesMap)
                     ELSE stateFiles
    /\ UNCHANGED <<vault, remote, syncState, running, pc, active, rejected,
                   cachedLocalFiles, cachedRemoteFiles, decisions,
                   todo, conflictCopy, executed, result, pre, runs,
                   settingsData, loadFailed, prevExecuted, pluginData,
                   returned, pluginVars, folders, apart>>

NextRace ==
    \/ Next
    \/ ListRemoteFailsFirst
    \/ PendingLoadCompletes

SpecRace == Init /\ [][NextRace]_vars

\* ------------------------------------------------- connection settings
ConnectionFields == {"endpoint", "region", "bucketName", "accessKeyId",
                     "secretAccessKey"}

\* S3SyncSettingTab: a connection field is edited (the trimmed text may be
\* empty) while no run is in progress, and saveSettings follows
onChange(field, value) ==
    /\ pc = "idle"
    /\ settings' = [settings EXCEPT ![field] = value]
    /\ saveSettingsOf(settings')
    /\ UNCHANGED returned

\* the same edit with a saveData that throws: saveSettings stops there, and
\* updateSettings is not called
onChangeSaveFails(field, value) ==
    /\ pc = "idle"
    /\ settings' = [settings EXCEPT ![field] = value]
    /\ UNCHANGED <<vault, remote, syncState, running, pc, active, rejected,
                   cachedLocalFiles, cachedRemoteFiles, stateFiles, decisions,
                   todo, conflictCopy, executed, result, pre, runs,
                   settingsData, loadFailed, prevExecuted, pluginData,
                   returned, supplied, client, syncIntervalId, timers,
                   timersCreated, rest>>

\* runSync: if (!this.s3Service.isConfigured()) { new Notice(...); return; }
RunSyncNotConfigured ==
    /\ ~AlreadyRunning
    /\ ~isConfigured
    /\ returned' = Outcome("runSync", Undefined, Undefined, "",
                           "Plugin not configured")
    /\ UNCHANGED <<vault, remote, syncState, running, pc, active, rejected,
                   cachedLocalFiles, cachedRemoteFiles, stateFiles, decisions,
                   todo, conflictCopy, executed, result, pre, runs,
                   settingsData, loadFailed, prevExecuted, pluginData,
                   pluginVars, rest>>

\* a method of S3Service called without a client:
\* if (!this.isConfigured()) throw new Error("S3 client not configured.")
\* (the requests of a client that exists are the steps of the run)
NotConfiguredThrows(method) ==
    /\ ~isConfigured
    /\ returned' = Outcome(method, Undefined, Undefined,
                           "S3 client not configured.", "")
    /\ UNCHANGED <<vault, remote, syncState, running, pc, active, rejected,
                   cachedLocalFiles, cachedRemoteFiles, stateFiles, decisions,
                   todo, conflictCopy, executed, result, pre, runs,
                   settingsData, loadFailed, prevExecuted, pluginData,
                   pluginVars, rest>>

\* A new file in the vault, an empty bucket and no baseline, and settings
\* with any of the five connection fields empty; the S3Service was
\* constructed with them; one run may follow.
InitConfig ==
    /\ vault = [p \in {FileA} |-> [mtime |-> 1, content |-> "L"]]
    /\ remote = EmptyMap
    /\ syncState = EmptyMap
    /\ Idle
    /\ settings \in {s \in S3SyncSettings :
                          ~s.enableAutomaticSync /\ s.syncIntervalMinutes = 15}
    /\ supplied = settings
    /\ client = initializeClient(settings)
    /\ syncIntervalId = Undefined
    /\ timers = {}
    /\ timersCreated = 0
    /\ pluginData = Some([other |-> Some(settings), hasSyncState |-> TRUE])
    /\ returned = Undefined
    /\ OnlyFoldersOfFiles
    /\ runs = MaxRuns - 1
    /\ settingsData = syncState

\* the run of an upload, and the calls made while there is no client
NextConfig ==
    \/ RunSyncAccepted
    \/ RunSyncRejected
    \/ GenerateMaps
    \/ ListRemoteFails
    \/ LoadStateFails
    \/ Plan
    \/ \E p \in DOMAIN decisions : executeUpload(p)
    \/ \E p \in DOMAIN decisions : ActionFails(p)
    \/ \E p \in DOMAIN decisions : UploadHeadFails(p)
    \/ saveUpdatedSyncState
    \/ SaveStateFails
    \/ Finally
    \/ RunSyncNotConfigured
    \/ \E field \in ConnectionFields, value \in {"", "x"} : onChange(field, value)
    \/ \E field \in ConnectionFields, value \in {"", "x"} :
           onChangeSaveFails(field, value)
    \/ \E method \in S3Methods : NotConfiguredThrows(method)

SpecConfig == InitConfig /\ [][NextConfig]_vars

\* ------------------------------------------------- folders of the vault
NestedFile == <<"n", "/", "a", ".", "md">>
NotesFolder == <<"n">>
EmptyFolder == <<"e">>
ObsidianFolder == <<".", "obsidian">>
PluginsFolder == <<".", "obsidian", "/", "plugins">>
SnippetsFolder == <<".", "obsidian", "/", "snippets">>
OldConfigFolder == <<".", "obsidian-old">>
FolderPaths == {NotesFolder, EmptyFolder, ObsidianFolder, PluginsFolder,
                PluginFolder, SnippetsFolder, OldConfigFolder}

\* a folder tree: every folder lies in a loaded folder or in the root, and
\* so does every file
FolderTrees(files) ==
    {S \in SUBSET FolderPaths :
        /\ \A f \in S : ParentPath(f) # <<>> => ParentPath(f) \in S
        /\ \A p \in files : ParentPath(p) # <<>> => ParentPath(p) \in S}

\* executeDownload: ensureFolderExists has made the folder, then
\* vault.createBinary or modifyBinary throws
DownloadWriteFails(p) ==
    /\ Ready(p, {"DOWNLOAD"})
    /\ p \in DOMAIN Val(cachedRemoteFiles)
    /\ p \in DOMAIN remote
    /\ folders' = ensureFolderExists(p)
    /\ pc' = "failed"
    /\ UNCHANGED <<vault, remote, conflictCopy, running, active, rejected,
                   cachedLocalFiles, cachedRemoteFiles, stateFiles, decisions,
                   todo, executed, result, pre, syncState, runs, settingsData,
                   loadFailed, prevExecuted, pluginData, returned, pluginVars,
                   pendingStateLoad, apart>>

\* One file in a folder, present or not on each side and in the baseline,
\* in a vault with any tree of ordinary and system folders; one run follows.
InitPrune ==
    /\ vault \in Maps({NestedFile}, [mtime : {1}, content : {"L"}])
    /\ remote \in Maps({NestedFile}, [mtime : {1}, content : {"R"}])
    /\ syncState \in Maps({NestedFile},
           {[localMtime |-> Some(1), remoteMtime |-> Some(1)]})
    /\ Idle
    /\ Connected
    /\ pluginData = Some([other |-> Some(ConnectedSettings), hasSyncState |-> TRUE])
    /\ returned = Undefined
    /\ folders \in FolderTrees(DOMAIN vault)
    /\ runs = MaxRuns - 1
    /\ settingsData = syncState

NextPrune ==
    \/ Next
    \/ \E p \in DOMAIN decisions : DownloadWriteFails(p)

SpecPrune == InitPrune /\ [][NextPrune]_vars

\* --------------------------------------------- the automatic-sync timer
\* loadSettings: Object.assign({}, DEFAULT_SETTINGS, await this.loadData())
loadSettings ==
    IF pluginData = Undefined \/ Val(pluginData).other = Undefined
    THEN DEFAULT_SETTINGS
    ELSE Val(Val(pluginData).other)

\* onload while no run is in progress: the settings are loaded, a new
\* SyncManager with its S3Service is made of them, and updateSyncInterval
\* sets the timer
onload ==
    /\ pc = "idle"
    /\ ~running
    /\ settings' = loadSettings
    /\ settingsData' = syncState
    /\ client' = initializeClient(settings')
    /\ supplied' = settings'
    /\ updateSyncIntervalOf(settings')
    /\ returned' = Outcome("onload", Undefined, Undefined, "", "")
    /\ UNCHANGED <<vault, remote, syncState, running, pc, active, rejected,
                   cachedLocalFiles, cachedRemoteFiles, stateFiles, decisions,
                   todo, conflictCopy, executed, result, pre, runs,
                   loadFailed, prevExecuted, pluginData, rest>>

\* onunload: the interval is cleared, syncIntervalId keeps its value
onunload ==
    /\ timers' = timers \ syncIntervalId
    /\ returned' = Outcome("onunload", Undefined, Undefined, "", "")
    /\ UNCHANGED <<vault, remote, syncState, running, pc, active, rejected,
                   cachedLocalFiles, cachedRemoteFiles, stateFiles, decisions,
                   todo, conflictCopy, executed, result, pre, runs,
                   settingsData, loadFailed, prevExecuted, pluginData,
                   settings, supplied, client, syncIntervalId, timersCreated,
                   rest>>

\* the callback of an active interval: this.syncManager.runSync()
Tick ==
    /\ timers # {}
    /\ \/ RunSyncAccepted
       \/ RunSyncRejected
       \/ RunSyncNotConfigured

\* settings with the five connection fields all set or all empty
TimerSettings ==
    {s \in S3SyncSettings :
        \A f \in ConnectionFields : s[f] = s.endpoint}

\* After the first onload: a new file in the vault, any stored settings,
\* and the timer as updateSyncInterval has left it.
InitTimer ==
    /\ vault = [p \in {FileA} |-> [mtime |-> 1, content |-> "L"]]
    /\ remote = EmptyMap
    /\ syncState = EmptyMap
    /\ Idle
    /\ settings \in TimerSettings
    /\ supplied = settings
    /\ client = initializeClient(settings)
    /\ pluginData = Some([other |-> Some(settings), hasSyncState |-> TRUE])
    /\ IF settings.enableAutomaticSync /\ settings.syncIntervalMinutes > 0
       THEN syncIntervalId = Some(1) /\ timers = {1} /\ timersCreated = 1
       ELSE syncIntervalId = Undefined /\ timers = {} /\ timersCreated = 0
    /\ returned = Undefined
    /\ OnlyFoldersOfFiles
    /\ runs = 0
    /\ settingsData = syncState

\* the calls of the plugin, the edits of the two timer settings, the ticks,
\* and the steps of the runs the ticks start
NextTimer ==
    \/ onload
    \/ onunload
    \/ saveSettings
    \/ updateSyncInterval
    \/ \E value \in BOOLEAN : onChange("enableAutomaticSync", value)
    \/ onChange("syncIntervalMinutes", 15)
    \/ \E value \in BOOLEAN : onChangeSaveFails("enableAutomaticSync", value)
    \/ Tick
    \/ GenerateMaps
    \/ ListRemoteFails
    \/ Plan
    \/ \E p \in DOMAIN decisions : executeUpload(p)
    \/ saveUpdatedSyncState
    \/ Finally

SpecTimer == InitTimer /\ [][NextTimer]_vars

\* ------------------------------------- S3Service.listRemoteFiles, paged
MaxPages == 3

EndsWith(s, t) == Len(s) > 0 /\ s[Len(s)] = t

\* getLocalPath: remoteKey.substring(prefix.length + 1) when the prefix is
\* set and does not end with a slash, remoteKey.substring(prefix.length)
\* otherwise.  Keys and prefixes are written one character a token, so that
\* SubSeq is substring.
getLocalPath(prefix, remoteKey) ==
    IF prefix # <<>> /\ ~EndsWith(prefix, "/")
    THEN SubSeq(remoteKey, Len(prefix) + 2, Len(remoteKey))
    ELSE SubSeq(remoteKey, Len(prefix) + 1, Len(remoteKey))

\* obj.Key.endsWith("/") && this.getLocalPath(obj.Key) === ""
IsFolderMarker(prefix, key) ==
    EndsWith(key, "/") /\ getLocalPath(prefix, key) = <<>>

\* response.Contents?.forEach(...): the objects of one response, in order,
\* set under their local paths; an object is named by its Key
RECURSIVE AddContents(_, _, _)
AddContents(prefix, remoteFiles, contents) ==
    IF contents = <<>>
    THEN remoteFiles
    ELSE LET key == Head(contents)
             relativePath == getLocalPath(prefix, key)
         IN  AddContents(prefix,
                 IF IsFolderMarker(prefix, key) \/ shouldIgnoreFile(relativePath)
                 THEN remoteFiles
                 ELSE Put(remoteFiles, relativePath, key),
                 Tail(contents))

\* the keys of the model's buckets in the order ListObjectsV2 lists them
\* (UTF-8 binary order: "." < "/" < letters):
\* ".h" "a" "d/" and "p/" "p/.h" "p/a" "p/d/" "pxa"
SortedKeys ==
    << <<".", "h">>, <<"a">>, <<"d", "/">>,
       <<"p", "/">>, <<"p", "/", ".", "h">>, <<"p", "/", "a">>,
       <<"p", "/", "d", "/">>, <<"p", "x", "a">> >>

\* settings.remotePrefix.trim(): none, "p", "p/"
Prefixes == {<<>>, <<"p">>, <<"p", "/">>}

\* Prefix: the store lists the keys that begin with it
MatchesPrefix(prefix, key) ==
    Len(key) >= Len(prefix) /\ SubSeq(key, 1, Len(prefix)) = prefix

\* the keys a bucket can hold under a prefix.  With no prefix the bucket of
\* the model holds the first three keys only.
KeysUnder(prefix) ==
    {SortedKeys[i] : i \in {j \in 1..Len(SortedKeys) :
        IF prefix = <<>> THEN j <= 3 ELSE MatchesPrefix(prefix, SortedKeys[j])}}

\* the responses of the store for a bucket: its keys in order, cut into
\* pages; every page but the last is truncated and names the next one, the
\* last has IsTruncated false or none.  An empty page has no Contents.
PagesOf(bucket, cuts, last) ==
    LET keys == SelectSeq(SortedKeys, LAMBDA k : k \in bucket)
        n    == Len(cuts) + 1
        from(i) == IF i = 1 THEN 1 ELSE cuts[i - 1] + 1
        to(i)   == IF i = n THEN Len(keys) ELSE cuts[i]
    IN  [i \in 1..n |->
            [Contents |-> IF to(i) < from(i) THEN Undefined
                          ELSE Some(SubSeq(keys, from(i), to(i))),
             IsTruncated |-> IF i < n THEN Some(TRUE) ELSE last,
             NextContinuationToken |-> IF i < n THEN Some(i + 1) ELSE Undefined]]

\* the places to cut n keys into at most MaxPages pages
Cuts(n) ==
    UNION {{c \in [1..m -> 0..n] : \A i \in 2..m : c[i - 1] <= c[i]} :
           m \in 0..(MaxPages - 1)}

Listings(prefix) ==
    UNION {{PagesOf(bucket, cuts, last) :
                cuts \in Cuts(Cardinality(bucket)),
                last \in {Undefined, Some(FALSE)}} :
           bucket \in SUBSET KeysUnder(prefix)}

\* everything but the listing
notListing ==
    <<vault, remote, syncState, running, pc, active, rejected,
      cachedLocalFiles, cachedRemoteFiles, stateFiles, decisions, todo,
      conflictCopy, executed, result, pre, runs, settingsData, loadFailed,
      prevExecuted, pluginData, returned, pluginVars, pendingStateLoad,
      folders, upload, deleteEvents, remotePrefix, elsewhere, issued>>

\* listRemoteFiles is called: the map is empty, no token, isTruncated = true
listRemoteFilesCalled ==
    /\ listing.at = "none"
    /\ isConfigured
    /\ listing' = [listing EXCEPT !.at = "loop", !.isTruncated = TRUE]
    /\ UNCHANGED notListing

\* one turn of while (isTruncated): the request carries continuationToken
\* and the store answers with the page it names, the first when it is none
ListPage ==
    /\ listing.at = "loop"
    /\ listing.isTruncated
    /\ LET response == listing.pages[IF listing.continuationToken = Undefined
                                     THEN 1
                                     ELSE Val(listing.continuationToken)]
       IN  listing' = [listing EXCEPT
               !.requests = Append(@, listing.continuationToken),
               !.remoteFiles = IF response.Contents = Undefined THEN @
                               ELSE AddContents(listing.prefix, @,
                                                Val(response.Contents)),
               !.isTruncated = IF response.IsTruncated = Undefined THEN FALSE
                               ELSE Val(response.IsTruncated),
               !.continuationToken = response.NextContinuationToken]
    /\ UNCHANGED notListing

\* client.send rejects: the error leaves listRemoteFiles
ListPageFails ==
    /\ listing.at = "loop"
    /\ listing.isTruncated
    /\ listing' = [listing EXCEPT
           !.requests = Append(@, listing.continuationToken),
           !.at = "threw"]
    /\ UNCHANGED notListing

\* return remoteFiles
ListReturns ==
    /\ listing.at = "loop"
    /\ ~listing.isTruncated
    /\ listing' = [listing EXCEPT !.at = "returned",
                                  !.result = Some(listing.remoteFiles)]
    /\ UNCHANGED notListing

\* a configured service, any prefix and any bucket in pages
InitList ==
    /\ vault = EmptyMap
    /\ remote = EmptyMap
    /\ syncState = EmptyMap
    /\ running = FALSE /\ pc = "idle" /\ active = 0 /\ rejected = FALSE
    /\ cachedLocalFiles = Undefined /\ cachedRemoteFiles = Undefined
    /\ stateFiles = Undefined /\ decisions = EmptyMap /\ todo = {}
    /\ conflictCopy = Undefined /\ executed = <<>> /\ result = "none"
    /\ pre = Undefined /\ loadFailed = FALSE /\ prevExecuted = <<>>
    /\ pendingStateLoad = FALSE
    /\ upload = Undefined /\ deleteEvents = {}
    /\ remotePrefix = "" /\ elsewhere = EmptyMap /\ issued = {}
    /\ Installed
    /\ runs = 0
    /\ settingsData = syncState
    /\ \E prefix \in Prefixes : \E pages \in Listings(prefix) :
           listing = [NoListing EXCEPT !.prefix = prefix, !.pages = pages]

NextList ==
    \/ listRemoteFilesCalled
    \/ ListPage
    \/ ListPageFails
    \/ ListReturns

SpecList == InitList /\ [][NextList]_vars

\* ------------------------------------------- SyncStateManager on its own
\* the two baseline entries the stored and the saved states are made of
SyncStates ==
    Maps(BasePaths, {[localMtime |-> Some(1), remoteMtime |-> Some(1)],
                     [localMtime |-> Some(1), remoteMtime |-> Some(2)]})

\* Plugin data of every shape (null, {}, settings only, with a syncState),
\* no run in progress.
InitState ==
    /\ pluginData \in {Undefined} \cup
           {Some([other |-> o, hasSyncState |-> h]) :
                o \in {Undefined, Some(DEFAULT_SETTINGS), Some(ConnectedSettings)},
                h \in BOOLEAN}
    /\ syncState \in IF pluginData # Undefined /\ Val(pluginData).hasSyncState
                      THEN SyncStates ELSE {EmptyMap}
    /\ vault = EmptyMap
    /\ remote = EmptyMap
    /\ Idle
    /\ returned = Undefined
    /\ Connected
    /\ OnlyFoldersOfFiles
    /\ runs = 0
    /\ settingsData = syncState

NextState ==
    \/ \E state \in SyncStates : saveState(state)
    \/ \E state \in SyncStates : saveStateThrows(state)
    \/ clearState
    \/ clearStateThrows
    \/ loadState
    \/ loadStateCatches

SpecState == InitState /\ [][NextState]_vars


\* ================================================================ claims

\* C1: a run in which listing the remote files, an action or the save throws
\* persists nothing: when it has failed, the persisted baseline is the one
\* it found when it started, whatever it already did to the vault and the
\* bucket.
C1_FailedRunKeepsBaseline ==
    pc = "failed" => syncState = Val(pre).syncState

\* a run failed after an action of it had changed the bucket or the vault,
\* with a working baseline that differs from the persisted one
C1_Witness ==
    /\ pc = "failed"
    /\ executed # <<>>
    /\ (remote # Val(pre).remote \/ vault # Val(pre).vault)
    /\ Val(stateFiles) # syncState

\* C2: at most one run is past the entry guard, and a runSync call made
\* while a run is in progress only shows its notice: it changes neither the
\* vault, the bucket, the working maps, the plan nor the persisted baseline,
\* and the run in progress goes on from where it was.
C2_SingleFlight ==
    /\ [](active <= 1)
    /\ [][(running /\ ~rejected /\ rejected') =>
              UNCHANGED <<vault, remote, syncState, running, pc, active,
                          cachedLocalFiles, cachedRemoteFiles, stateFiles,
                          decisions, todo, conflictCopy, executed, result,
                          pre, runs,
                   settingsData, loadFailed, prevExecuted, pluginData, ext>>]_vars

\* a call was rejected while the run was executing its plan
C2_Witness ==
    /\ rejected
    /\ running
    /\ pc = "exec"
    /\ executed # <<>>
    /\ todo # {}


\* the plan has just been computed: the working baseline is still the loaded one
Planned == pc = "exec" /\ executed = <<>> /\ conflictCopy = Undefined

Changed == {"CREATED", "MODIFIED"}

\* C3: when the run before succeeded and nothing changed since, every
\* decision of the plan is DO_NOTHING.
C3_Idempotence ==
    (Planned /\ result = "success") =>
        \A p \in DOMAIN decisions : decisions[p].action = "DO_NOTHING"

\* C4: a path whose baseline entry has both mtimes, that is in neither the
\* Local nor the Remote map and is DELETED on both sides, is decided
\* DO_NOTHING.
C4_BothDeletedDoesNothing ==
    Planned =>
        \A p \in DOMAIN decisions :
            ( /\ p \in DOMAIN Val(stateFiles)
              /\ Val(stateFiles)[p].localMtime # Undefined
              /\ Val(stateFiles)[p].remoteMtime # Undefined
              /\ p \notin DOMAIN Val(cachedLocalFiles)
              /\ p \notin DOMAIN Val(cachedRemoteFiles)
              /\ decisions[p].localStatus = "DELETED"
              /\ decisions[p].remoteStatus = "DELETED" )
            => decisions[p].action = "DO_NOTHING"

ContentKept(c) ==
    \/ \E q \in DOMAIN vault : vault[q].content = c
    \/ \E q \in DOMAIN remote : remote[q].content = c

\* C5: after a successful run, for every path that was CREATED or MODIFIED
\* on both sides, the content its local file had and the content its remote
\* object had before the run both still exist, locally or remotely.
C5_BothVersionsKept ==
    pc = "done" =>
        \A p \in DOMAIN decisions :
            (decisions[p].localStatus \in Changed
                /\ decisions[p].remoteStatus \in Changed)
            => /\ ContentKept(Val(pre).vault[p].content)
               /\ ContentKept(Val(pre).remote[p].content)

\* C6: DELETED on one side and CREATED or MODIFIED on the other is DOWNLOAD
\* when the local side is the deleted one and UPLOAD when the remote side
\* is, whatever the mtimes.
C6_ChangeBeatsDeletion ==
    \A p \in DOMAIN decisions :
        /\ (decisions[p].localStatus = "DELETED"
                /\ decisions[p].remoteStatus \in Changed)
           => decisions[p].action = "DOWNLOAD"
        /\ (decisions[p].remoteStatus = "DELETED"
                /\ decisions[p].localStatus \in Changed)
           => decisions[p].action = "UPLOAD"

\* a plan holds a remote creation against a local deletion, with the
\* remote mtime below the mtime the baseline has for the local file
C6_Witness ==
    \E p \in DOMAIN decisions :
        /\ Planned
        /\ decisions[p].localStatus = "DELETED"
        /\ decisions[p].remoteStatus = "CREATED"
        /\ Val(cachedRemoteFiles)[p].mtime < Val(Val(stateFiles)[p].localMtime)
        /\ decisions[p].action = "DOWNLOAD"

C8_SingleSideChange ==
    \A p \in DOMAIN decisions :
        LET d == decisions[p]
        IN  /\ (d.localStatus \in Changed /\ d.remoteStatus = "UNCHANGED")
               => d.action = "UPLOAD"
            /\ (d.localStatus = "DELETED" /\ d.remoteStatus = "UNCHANGED")
               => d.action = "DELETE_REMOTE"
            /\ (d.localStatus = "UNCHANGED" /\ d.remoteStatus \in Changed)
               => d.action = "DOWNLOAD"
            /\ (d.localStatus = "UNCHANGED" /\ d.remoteStatus = "DELETED")
               => d.action = "DELETE_LOCAL"
            /\ (d.localStatus = "UNCHANGED" /\ d.remoteStatus = "UNCHANGED")
               => d.action = "DO_NOTHING"
            /\ (Planned /\ p \notin DOMAIN Val(stateFiles))
               => /\ (p \in DOMAIN Val(cachedLocalFiles)
                        /\ p \notin DOMAIN Val(cachedRemoteFiles))
                     => d.action = "UPLOAD"
                  /\ (p \in DOMAIN Val(cachedRemoteFiles)
                        /\ p \notin DOMAIN Val(cachedLocalFiles))
                     => d.action = "DOWNLOAD"

\* a plan holds DELETE_REMOTE for a file deleted locally and unchanged remotely
C8_Witness ==
    \E p \in DOMAIN decisions :
        /\ Planned
        /\ decisions[p].localStatus = "DELETED"
        /\ decisions[p].remoteStatus = "UNCHANGED"
        /\ p \in DOMAIN Val(cachedRemoteFiles)
        /\ decisions[p].action = "DELETE_REMOTE"

\* the status the classification rule gives an observed mtime o and a stored
\* mtime s, each optional
RuleStatus(o, s) ==
    IF o # Undefined /\ s = Undefined THEN "CREATED"
    ELSE IF o # Undefined /\ s # Undefined /\ Val(s) < Val(o) THEN "MODIFIED"
    ELSE IF o # Undefined /\ s # Undefined THEN "UNCHANGED"
    ELSE IF o = Undefined /\ s # Undefined THEN "DELETED"
    ELSE "NONE"

ObservedMtime(map, p) == IF p \in DOMAIN map THEN Some(map[p].mtime) ELSE Undefined

\* C9: each side's status is CREATED iff observed and not stored, MODIFIED
\* iff both and stored < observed, UNCHANGED iff both and stored >= observed,
\* DELETED iff stored and not observed, for all mtimes >= 0 of that side
\* alone.
C9_StatusClassification ==
    Planned =>
        \A p \in DOMAIN decisions :
            LET entry == Get(Val(stateFiles), p)
                ol == ObservedMtime(Val(cachedLocalFiles), p)
                sl == StateTime(entry, TRUE)
                or == ObservedMtime(Val(cachedRemoteFiles), p)
                sr == StateTime(entry, FALSE)
            IN  /\ (ol # Undefined \/ sl # Undefined)
                   => decisions[p].localStatus = RuleStatus(ol, sl)
                /\ (or # Undefined \/ sr # Undefined)
                   => decisions[p].remoteStatus = RuleStatus(or, sr)

\* the place of an action in the order downloads, uploads, deletes, conflicts
OrderOf(action) ==
    CASE action = "DOWNLOAD" -> 1
      [] action = "UPLOAD" -> 2
      [] action \in {"DELETE_LOCAL", "DELETE_REMOTE"} -> 3
      [] action = "CONFLICT" -> 4

\* C10: the actions of a run complete in the order downloads, uploads,
\* deletes, conflicts, one at a time: no completed action is followed by one
\* of an earlier phase, an action of a later phase has completed only when
\* none of an earlier phase is left, and while a conflict resolution is in
\* flight nothing but conflicts is left.
C10_PhaseOrder ==
    /\ \A i, j \in DOMAIN executed :
           i < j => OrderOf(executed[i][2]) <= OrderOf(executed[j][2])
    /\ \A i \in DOMAIN executed : \A q \in todo :
           OrderOf(executed[i][2]) <= OrderOf(decisions[q].action)
    /\ conflictCopy # Undefined =>
           \A q \in todo : decisions[q].action = "CONFLICT"

\* a run completed the download of one path and then the delete of the other
C10_Witness ==
    /\ Len(executed) = 2
    /\ executed[1][2] = "DOWNLOAD"
    /\ executed[2][2] \in {"DELETE_LOCAL", "DELETE_REMOTE"}
    /\ executed[1][1] # executed[2][1]

\* an entry with exactly one mtime
OneSided(e) == (e.localMtime = Undefined) # (e.remoteMtime = Undefined)

\* C11: once a run has succeeded, every entry of the persisted baseline has
\* both localMtime and remoteMtime, whatever the baseline was that the run
\* loaded and whatever one-sided entries its deletes left in the working map.
C11_BaselineWellFormed ==
    (pc = "done" \/ result = "success") =>
        \A p \in DOMAIN syncState :
            /\ syncState[p].localMtime # Undefined
            /\ syncState[p].remoteMtime # Undefined

\* a run that loaded a complete entry, deleted the local file and so left a
\* one-sided entry in its working map, has committed
C11_Witness ==
    /\ pc = "done"
    /\ \E p \in DOMAIN Val(stateFiles) :
           /\ executed = << <<p, "DELETE_LOCAL">> >>
           /\ OneSided(Val(stateFiles)[p])
           /\ p \notin DOMAIN syncState

\* the alternate file of a conflict on path p in the run in progress
ConflictName(p) == getConflictFileName(p, Val(cachedRemoteFiles)[p].mtime)

Holds(files, q, c) == q \in DOMAIN files /\ files[q].content = c

Done(p, action) == \E i \in DOMAIN executed : executed[i] = <<p, action>>

\* C12: for a CONFLICT on a path that had a local file and a remote object,
\* at every point of the run, a failure midway included, the content the
\* remote object had before the run is in the remote object or in the
\* alternate file; once the resolution has completed the alternate file
\* holds it, the remote object holds the local content and the local file
\* is as it was.
C12_ConflictKeepsRemote ==
    \A p \in DOMAIN decisions :
        ( /\ decisions[p].action = "CONFLICT"
          /\ p \in DOMAIN Val(pre).vault
          /\ p \in DOMAIN Val(pre).remote )
        => LET remoteContent == Val(pre).remote[p].content
               alt == ConflictName(p)
           IN  /\ Holds(remote, p, remoteContent) \/ Holds(vault, alt, remoteContent)
               /\ Done(p, "CONFLICT")
                  => /\ Holds(vault, alt, remoteContent)
                     /\ Holds(remote, p, Val(pre).vault[p].content)
                     /\ vault[p] = Val(pre).vault[p]

\* a conflict resolution failed after the PutObject had overwritten the
\* remote object: the alternate file holds the remote version
C12_Witness ==
    /\ pc = "failed"
    /\ \E p \in DOMAIN decisions :
           /\ decisions[p].action = "CONFLICT"
           /\ Holds(remote, p, "L")
           /\ Val(pre).remote[p].content = "R"
           /\ Holds(vault, ConflictName(p), "R")

\* path p had a local file and a remote object and its CONFLICT has been
\* resolved in the run in progress
Resolved(p) ==
    /\ p \in DOMAIN decisions
    /\ Done(p, "CONFLICT")
    /\ p \in DOMAIN Val(pre).vault
    /\ p \in DOMAIN Val(pre).remote

\* the entry an UPLOAD of p leaves: the local file's mtime and the mtime the
\* store reports for the object
UploadedEntry(p) ==
    [localMtime |-> Some(vault[p].mtime), remoteMtime |-> Some(remote[p].mtime)]

DownloadedEntry(p) ==
    [localMtime  |-> Some(vault[p].mtime),
     remoteMtime |-> Some(Val(cachedRemoteFiles)[p].mtime)]

Deletes == {"DELETE_LOCAL", "DELETE_REMOTE"}

\* the entry a delete must leave, given the entry it found (optional)
AfterDelete(old, action) ==
    LET found == IF old = Undefined
                 THEN [localMtime |-> Undefined, remoteMtime |-> Undefined]
                 ELSE Val(old)
        kept  == IF action = "DELETE_LOCAL"
                 THEN [localMtime |-> Undefined, remoteMtime |-> found.remoteMtime]
                 ELSE [localMtime |-> found.localMtime, remoteMtime |-> Undefined]
    IN  IF kept.localMtime = Undefined /\ kept.remoteMtime = Undefined
        THEN Undefined
        ELSE Some(kept)

\* C15: the step that completes a DELETE_LOCAL clears localMtime of the
\* path's working entry and keeps its remoteMtime, the step that completes a
\* DELETE_REMOTE clears remoteMtime and keeps localMtime, the entry is gone
\* afterwards exactly when neither mtime is left, and the entry of every
\* other path is as before.
C15_DeleteBaseline ==
    [][\A p \in DOMAIN decisions : \A action \in Deletes :
          executed' = Append(executed, <<p, action>>)
          => /\ Get(Val(stateFiles'), p)
                    = AfterDelete(Get(Val(stateFiles), p), action)
             /\ \A q \in (DOMAIN Val(stateFiles) \cup DOMAIN Val(stateFiles')) \ {p} :
                    Get(Val(stateFiles'), q) = Get(Val(stateFiles), q)]_vars

\* a DELETE_REMOTE has left a one-sided entry for its path, next to the
\* untouched entry of another path
C15_Witness ==
    /\ pc = "exec"
    /\ \E p \in DOMAIN decisions : \E q \in DOMAIN Val(stateFiles) \ {p} :
           /\ Done(p, "DELETE_REMOTE")
           /\ p \in DOMAIN Val(stateFiles)
           /\ Val(stateFiles)[p].remoteMtime = Undefined
           /\ Val(stateFiles)[p].localMtime = Val(pre).syncState[p].localMtime
           /\ Val(stateFiles)[q] = Val(pre).syncState[q]

\* building the snapshot of the run in progress met an error: the listing
\* of the remote objects threw, or the load of the persisted baseline did
SnapshotFailed ==
    \/ loadFailed
    \/ pc = "failed" /\ cachedRemoteFiles = Undefined

\* C16: a run whose snapshot met an error computes no plan, executes no
\* action on either side, never commits and leaves the persisted baseline
\* as it was: it is at most about to fail, or has failed.
C16_SnapshotFailureFatal ==
    SnapshotFailed =>
        /\ pc \in {"plan", "failed"}
        /\ decisions = EmptyMap
        /\ executed = <<>>
        /\ vault = Val(pre).vault
        /\ remote = Val(pre).remote
        /\ syncState = Val(pre).syncState

\* C17: the persisted baseline changes only in the commit step of the one
\* run that is past the entry guard; no other step, a save of the settings
\* included, changes or removes it.
C17_SingleMutator ==
    [][syncState' # syncState => (active = 1 /\ pc = "exec" /\ pc' = "done")]_vars

\* C18: when the run before applied an UPLOAD or a DOWNLOAD for a path and
\* then failed, and nothing changed since, the plan of this run has
\* DO_NOTHING or the same transfer again for that path: never CONFLICT, a
\* delete or the opposite transfer.
C18_SafeAfterFailure ==
    (Planned /\ result = "failed") =>
        \A i \in DOMAIN prevExecuted :
            LET p == prevExecuted[i][1]
                applied == prevExecuted[i][2]
            IN  applied \in {"UPLOAD", "DOWNLOAD"}
                => /\ p \in DOMAIN decisions
                   /\ decisions[p].action \in {"DO_NOTHING", applied}

\* the '/'-separated segments of a path, as sets of positions: position i
\* starts a segment when it is the first or follows a "/"
SegmentStarts(path) ==
    {i \in 1..Len(path) : path[i] # "/" /\ (i = 1 \/ path[i - 1] = "/")}

\* the rule of the path filter: some segment starts with a dot
Excluded(path) == \E i \in SegmentStarts(path) : path[i] = "."

KnownPaths ==
    DOMAIN vault \cup DOMAIN remote \cup DOMAIN syncState \cup DOMAIN decisions

\* C19: shouldIgnoreFile holds of a path iff one of its segments starts with
\* a dot; no such path is in the Local, Remote or Baseline map of a run, in
\* its plan or among its completed actions, and the run leaves the local
\* file and the remote object of such a path as they were.
C19_PathFilter ==
    /\ \A p \in KnownPaths : shouldIgnoreFile(p) <=> Excluded(p)
    /\ cachedLocalFiles # Undefined
       => \A p \in DOMAIN Val(cachedLocalFiles) : ~Excluded(p)
    /\ cachedRemoteFiles # Undefined
       => \A p \in DOMAIN Val(cachedRemoteFiles) : ~Excluded(p)
    /\ stateFiles # Undefined
       => \A p \in DOMAIN Val(stateFiles) : ~Excluded(p)
    /\ \A p \in DOMAIN decisions : ~Excluded(p)
    /\ \A i \in DOMAIN executed : ~Excluded(executed[i][1])
    /\ pre # Undefined
       => \A p \in KnownPaths \cup DOMAIN Val(pre).vault \cup DOMAIN Val(pre).remote :
              Excluded(p) => /\ Get(vault, p) = Get(Val(pre).vault, p)
                             /\ Get(remote, p) = Get(Val(pre).remote, p)

\* a run that executed an action has committed while a nested hidden path
\* was in the vault only, with a baseline entry, and a top-level hidden path
\* was in the bucket only
C19_Witness ==
    /\ pc = "done"
    /\ executed # <<>>
    /\ HiddenNested \in DOMAIN vault
    /\ HiddenNested \notin DOMAIN remote
    /\ HiddenNested \in DOMAIN Val(pre).syncState
    /\ HiddenTop \in DOMAIN remote
    /\ HiddenTop \notin DOMAIN vault

\* a map cut down to the entry of one path
Only(map, p) == [q \in (DOMAIN map) \cap {p} |-> map[q]]

\* C20: the plan has a decision for each path that is a key of the Local,
\* the Remote or the Baseline map and for no other path, each decision
\* carries its own path, and it is the decision that the three entries of
\* that path alone give.
C20_PlanCoversUnion ==
    Planned =>
        LET localFiles  == Val(cachedLocalFiles)
            remoteFiles == Val(cachedRemoteFiles)
            states      == Val(stateFiles)
        IN  /\ DOMAIN decisions = (DOMAIN localFiles) \cup (DOMAIN remoteFiles)
                                      \cup (DOMAIN states)
            /\ \A p \in DOMAIN decisions :
                   /\ decisions[p].filePath = p
                   /\ decisions[p] = analyzeFile(p, Only(localFiles, p),
                                         Only(remoteFiles, p), Only(states, p))

\* a plan over one path that is only in the baseline and another that is
\* only in the vault
C20_Witness ==
    /\ Planned
    /\ \E p, q \in DOMAIN decisions :
           /\ p # q
           /\ p \in DOMAIN Val(stateFiles)
           /\ p \notin DOMAIN Val(cachedLocalFiles) \cup DOMAIN Val(cachedRemoteFiles)
           /\ q \in DOMAIN Val(cachedLocalFiles)
           /\ q \notin DOMAIN Val(stateFiles) \cup DOMAIN Val(cachedRemoteFiles)

\* ---------------------------------------------------------------- C21
\* the maps a run that passed the guard in state s builds
LocalSnapshot(s) ==
    [p \in {q \in DOMAIN s.vault : ~shouldIgnoreFile(q)} |->
        [mtime |-> s.vault[p].mtime]]

RemoteSnapshot(s) ==
    [p \in {q \in DOMAIN s.remote : ~shouldIgnoreFile(q)} |->
        [mtime |-> s.remote[p].mtime, key |-> p]]

\* the baseline as loadState returned it to the run
LoadedBaseline(s) ==
    IF loadFailed THEN EmptyMap
    ELSE [p \in {q \in DOMAIN s.syncState : ~shouldIgnoreFile(q)} |->
             s.syncState[p]]

\* the run has a plan: it is executing, committed, or failed after planning
HasPlan == pc \in {"exec", "done"} \/ (pc = "failed" /\ stateFiles # Undefined)

\* C21: plan before execute.  Until the plan of a run exists the run has
\* written nothing (vault and bucket are as the run found them, no action is
\* recorded, no conflict copy is in flight); once it exists, and for as long
\* as the run lasts, the decision of every path is the one computed from the
\* snapshot maps and the baseline as loaded, whatever entries of the working
\* baseline the actions of the run have updated since, and every action the
\* run has completed is the action of that plan.
C21_PlanBeforeExecute ==
    /\ (pre # Undefined /\ ~HasPlan) =>
            /\ vault = Val(pre).vault
            /\ remote = Val(pre).remote
            /\ executed = <<>>
            /\ conflictCopy = Undefined
    /\ HasPlan =>
            /\ decisions = generateSyncDecisions(LocalSnapshot(Val(pre)),
                                RemoteSnapshot(Val(pre)), LoadedBaseline(Val(pre)))
            /\ \A i \in DOMAIN executed :
                    /\ executed[i][1] \in DOMAIN decisions
                    /\ executed[i][2] = decisions[executed[i][1]].action

\* a run completed the actions of two paths, and planning again from the
\* working baseline it has now would decide differently
C21_Witness ==
    /\ pc = "done"
    /\ Len(executed) = 2
    /\ executed[1][1] # executed[2][1]
    /\ generateSyncDecisions(Val(cachedLocalFiles), Val(cachedRemoteFiles),
                             Val(stateFiles)) # decisions

\* ---------------------------------------------------------------- C22
\* C22: run lifecycle.  When every awaited call settles, a run that passed
\* the entry guard ends, committed or failed, and whenever no run is past the
\* guard the run-in-progress flag is false, so that the guard of the next
\* runSync lets it in.
C22_RunLifecycle ==
    /\ (pc # "idle") ~> (pc = "idle" /\ ~running /\ result \in {"success", "failed"})
    /\ [](pc = "idle" => ~running /\ ~AlreadyRunning)

\* a second run has passed the guard after the first one ended as failed
C22_Witness ==
    /\ pc = "maps"
    /\ runs = 2
    /\ result = "failed"

\* ---------------------------------------------------------------- C23
\* the keys of the plugin data besides syncState (none when it is null or {})
OtherKeys(data) == IF data = Undefined THEN Undefined ELSE Val(data).other

HasSyncStateKey(data) == data # Undefined /\ Val(data).hasSyncState

\* the call that made the step resolved
Resolved_Call(op) ==
    /\ returned' # Undefined
    /\ Val(returned').op = op
    /\ Val(returned').threw = ""
    /\ Val(returned').failure = ""

\* C23: state persistence contract.  A saveState(s) that resolves leaves the
\* plugin data with a syncState key whose value is exactly s, whatever was
\* stored before, and with its other keys as they were; a loadState that
\* follows it returns s; a clearState that resolves leaves the empty state
\* under the key; a saveState or clearState in which loadData or saveData
\* throws rejects with 'Failed to save sync state: ...'.
C23_PersistenceContract ==
    [][/\ returned' # Undefined
       /\ Resolved_Call("saveState") =>
              /\ syncState' = Val(Val(returned').arg)
              /\ HasSyncStateKey(pluginData')
              /\ OtherKeys(pluginData') = OtherKeys(pluginData)
       /\ Resolved_Call("clearState") =>
              /\ syncState' = EmptyMap
              /\ HasSyncStateKey(pluginData')
              /\ OtherKeys(pluginData') = OtherKeys(pluginData)
       /\ (Resolved_Call("loadState") /\ returned # Undefined
              /\ Val(returned).op = "saveState" /\ Val(returned).threw = "") =>
              Val(returned').value = Val(returned).arg
       /\ (Val(returned').op \in {"saveState", "clearState"}
              /\ Val(returned').failure # "") =>
              Val(returned').threw = "Failed to save sync state: "
      ]_vars

\* a loadState returned the one-path state that a saveState had put in the
\* place of a stored two-path state, next to the settings
C23_Witness ==
    /\ returned # Undefined
    /\ Val(returned).op = "loadState"
    /\ Val(returned).failure = ""
    /\ Val(returned).value # Undefined
    /\ DOMAIN Val(Val(returned).value) = {FileB}
    /\ syncState = Val(Val(returned).value)
    /\ settingsData # syncState
    /\ DOMAIN settingsData = BasePaths
    /\ OtherKeys(pluginData) = Some(ConnectedSettings)

\* ---------------------------------------------------------------- C26
\* C26: loadState never throws.  Every call resolves: with the stored
\* syncState when loadData gave plugin data that has one, and with the empty
\* state when the plugin data is null, when it has no syncState key, and
\* when loadData threw.
C26_LoadStateTotal ==
    [][(returned' # Undefined /\ Val(returned').op = "loadState") =>
          /\ Val(returned').threw = ""
          /\ Val(returned').value =
                 IF Val(returned').failure # "" THEN Some(EmptyMap)
                 ELSE IF pluginData = Undefined THEN Some(EmptyMap)
                 ELSE IF ~Val(pluginData).hasSyncState THEN Some(EmptyMap)
                 ELSE Some(syncState)
      ]_vars

\* loadData threw while a syncState of two paths was stored, and loadState
\* resolved with the empty state
C26_Witness ==
    /\ returned # Undefined
    /\ Val(returned).op = "loadState"
    /\ Val(returned).failure = "loadData"
    /\ Val(returned).value = Some(EmptyMap)
    /\ HasSyncStateKey(pluginData)
    /\ DOMAIN syncState = BasePaths

\* ---------------------------------------------------------------- C24
\* the five connection fields of s are all non-empty
AllConnectionFieldsSet(s) == \A f \in ConnectionFields : s[f] # ""

\* the step is a call of a method of S3Service made outside a run
S3Call == returned' # returned /\ Val(returned').op \in S3Methods

\* C24: isConfigured() is true iff the five connection fields were all
\* non-empty in the settings the S3Service was last given (by its
\* constructor or by updateSettings); while it is false no request changes
\* the store, every call of listRemoteFiles, uploadFile, downloadFile,
\* deleteRemoteFile and getFileMetadata throws 'S3 client not configured.',
\* and no runSync starts a run or sets the run-in-progress flag.
C24_NotConfigured ==
    /\ [](isConfigured <=> AllConnectionFieldsSet(supplied))
    /\ [][~isConfigured =>
             /\ remote' = remote
             /\ S3Call => Val(returned').threw = "S3 client not configured."
             /\ running' = running /\ ~running
             /\ runs' = runs
             /\ pc' = pc
             /\ active' = active
          ]_vars

\* a runSync was refused for lack of configuration: the S3Service was last
\* given settings in which only the bucket name is empty, and a file is
\* waiting to be uploaded
C24_Witness ==
    /\ returned # Undefined
    /\ Val(returned).op = "runSync"
    /\ ~isConfigured
    /\ supplied = [ConnectedSettings EXCEPT !.bucketName = ""]
    /\ FileA \in DOMAIN vault
    /\ FileA \notin DOMAIN remote
    /\ ~running

\* ---------------------------------------------------------------- C25
\* the step in which a run gets its three maps
BuildsMaps == pc = "maps" /\ pc' = "plan"

\* C25: fresh maps per run.  When a run gets its three maps none of them is
\* there already from an earlier run, and the maps it gets are the ones the
\* collaborators give at that time: the vault's files, the bucket's objects
\* and the stored baseline (or the empty one when loadState fell back).
C25_FreshMaps ==
    [][BuildsMaps =>
          /\ cachedLocalFiles = Undefined
          /\ cachedRemoteFiles = Undefined
          /\ stateFiles = Undefined
          /\ cachedLocalFiles' = Some(generateLocalFilesMap)
          /\ cachedRemoteFiles' = Some(generateRemoteFilesMap)
          /\ stateFiles' \in {Some(generateStateFilesMap), Some(EmptyMap)}
      ]_vars

\* ---------------------------------------------------------------- C27
\* vault.delete was called on the folder, or would have been had
\* getAllLoadedFiles not thrown, and the folder is still there
PruneFailed ==
    \E f \in folders : Prunable(f, folders, DOMAIN vault)

\* C27: a folder is deleted only by the step that has saved the baseline of
\* the run (the plugin data then holds the complete entries of the working
\* map), never by a step that ends in the catch block; and a run whose
\* pruning left a folder it tried to delete is a finished run like any
\* other: it ends as a success and with the baseline it saved.
C27_PruneAfterSave ==
    /\ [][(folders \ folders' # {}) =>
              /\ pc = "exec" /\ todo = {} /\ pc' = "done"
              /\ syncState' = CompleteEntries(Val(stateFiles))
              /\ HasSyncStateKey(pluginData')]_vars
    /\ [][(pc = "exec" /\ pc' = "done" /\ PruneFailed') =>
              syncState' = CompleteEntries(Val(stateFiles))]_vars
    /\ [][(pc = "done" /\ pc' # "done") =>
              /\ pc' = "idle" /\ result' = "success"
              /\ syncState' = syncState]_vars

\* a run has ended as a success with an empty system folder left that its
\* pruning had tried to delete, next to one it did delete
C27_Witness ==
    /\ pc = "idle"
    /\ result = "success"
    /\ SnippetsFolder \in folders
    /\ Prunable(SnippetsFolder, folders, DOMAIN vault)
    /\ OldConfigFolder \notin folders
    /\ prevExecuted # <<>>

\* ---------------------------------------------------------------- C28
\* C28: every folder that a step deletes has no child left (no loaded folder
\* and no file lies in it), has a path that does not start with ".obsidian",
\* and is not the plugin's folder.
C28_PruneSafety ==
    [][\A f \in folders \ folders' :
           /\ Children(f, folders', DOMAIN vault') = {}
           /\ ~StartsWithObsidian(f)
           /\ f # PluginFolder]_vars

\* ---------------------------------------------------------------- C29
\* the objects of all pages of the store
ListedKeys ==
    UNION {IF listing.pages[i].Contents = Undefined THEN {}
           ELSE {Val(listing.pages[i].Contents)[j] :
                     j \in 1..Len(Val(listing.pages[i].Contents))} :
           i \in 1..Len(listing.pages)}

\* the call asked for every page, the first without a token and each other
\* one with the token of the page before it, and stopped at the page whose
\* IsTruncated is false or absent
Drained ==
    /\ Len(listing.requests) = Len(listing.pages)
    /\ \A i \in 1..Len(listing.requests) :
           /\ listing.requests[i] = IF i = 1 THEN Undefined
                                     ELSE listing.pages[i - 1].NextContinuationToken
           /\ (listing.pages[i].IsTruncated = Some(TRUE)) = (i < Len(listing.requests))

\* every object that is neither excluded nor the folder marker is in the map
\* under its local path
AllReturned(map) ==
    \A key \in ListedKeys :
        LET relativePath == getLocalPath(listing.prefix, key)
        IN  (~IsFolderMarker(listing.prefix, key) /\ ~shouldIgnoreFile(relativePath))
                => relativePath \in DOMAIN map /\ map[relativePath] = key

\* C29: a call of listRemoteFiles that returns has requested the pages one
\* after the other, each with the token the page before it gave, up to the
\* page that is not truncated, and its map holds every object of every page
\* that is neither excluded nor the folder marker, under its local path, and
\* no excluded path; a call in which a request failed has thrown and
\* returned no map.
C29_ListingDrained ==
    /\ listing.at = "returned" =>
           /\ Drained
           /\ listing.result # Undefined
           /\ AllReturned(Val(listing.result))
           /\ \A p \in DOMAIN Val(listing.result) : ~shouldIgnoreFile(p)
    /\ listing.at \in {"loop", "threw"} => listing.result = Undefined

\* ---------------------------------------------------------------- C30
\* an interval is active exactly when automatic sync is on with a positive
\* interval, and it is the one syncIntervalId names
TimerMatchesSettings ==
    /\ (timers # {}) = (settings.enableAutomaticSync /\ settings.syncIntervalMinutes > 0)
    /\ timers = syncIntervalId

\* a step in which updateSyncInterval ran: the call itself, onload, or
\* saveSettings, called directly or by the settings tab
UpdatesInterval ==
    \/ updateSyncInterval
    \/ onload
    \/ saveSettings
    \/ \E value \in BOOLEAN : onChange("enableAutomaticSync", value)
    \/ onChange("syncIntervalMinutes", 15)

\* C30: at most one interval of the plugin is active at any time; a step in
\* which updateSyncInterval ran leaves one active exactly when
\* enableAutomaticSync is true and syncIntervalMinutes > 0; and a tick is a
\* call of runSync: at most one run is past the guard, and a tick that comes
\* while a run is in progress changes nothing of that run, of the vault, of
\* the bucket or of the baseline.
C30_Timer ==
    /\ [](Cardinality(timers) <= 1)
    /\ [][UpdatesInterval => TimerMatchesSettings']_vars
    /\ [](active <= 1)
    /\ [][(running /\ Tick) =>
              UNCHANGED <<vault, remote, syncState, running, pc, active,
                          cachedLocalFiles, cachedRemoteFiles, stateFiles,
                          decisions, todo, conflictCopy, executed, runs>>]_vars

\* the third interval the plugin made is the only one active, while a run
\* that a tick started is executing and a later tick has been turned away
C30_Witness ==
    /\ timers = {3}
    /\ syncIntervalId = Some(3)
    /\ settings.enableAutomaticSync
    /\ pc = "exec"
    /\ rejected

\* ---------------------------------------------------------------- C38
\* the file of map has an mtime that is not past the optional baseline mtime
NotModifiedSince(map, p, stateTime) ==
    p \in DOMAIN map => (stateTime # Undefined /\ map[p].mtime <= Val(stateTime))

\* C38: in the plan of a run DELETE_LOCAL is decided only for a path that is
\* not in the Remote map, whose baseline entry has a remoteMtime, and whose
\* local file is absent or has an mtime not past the baseline localMtime;
\* DELETE_REMOTE only for a path that is not in the Local map, whose entry
\* has a localMtime, and whose remote object is absent or has an mtime not
\* past the baseline remoteMtime.
C38_DeleteOnlyUnmodified ==
    Planned =>
        \A p \in DOMAIN decisions :
            LET entry == Get(Val(stateFiles), p)
            IN  /\ decisions[p].action = "DELETE_LOCAL" =>
                       /\ p \notin DOMAIN Val(cachedRemoteFiles)
                       /\ StateTime(entry, FALSE) # Undefined
                       /\ NotModifiedSince(Val(cachedLocalFiles), p,
                                           StateTime(entry, TRUE))
                /\ decisions[p].action = "DELETE_REMOTE" =>
                       /\ p \notin DOMAIN Val(cachedLocalFiles)
                       /\ StateTime(entry, TRUE) # Undefined
                       /\ NotModifiedSince(Val(cachedRemoteFiles), p,
                                           StateTime(entry, FALSE))

\* a plan deletes a local file whose mtime is below the baseline localMtime,
\* the object being gone from the bucket
C38_Witness ==
    \E p \in DOMAIN decisions :
        /\ Planned
        /\ decisions[p].action = "DELETE_LOCAL"
        /\ p \in DOMAIN Val(cachedLocalFiles)
        /\ Val(cachedLocalFiles)[p].mtime < Val(Val(stateFiles)[p].localMtime)

\* ---------------------------------------------------------------- C39
\* C39: in the plan of a run an UPLOAD is decided only for a path of the
\* Local map, a DOWNLOAD only for a path of the Remote map and a CONFLICT
\* only for a path of both maps; and a CONFLICT that the run has completed
\* was the resolution of a file that is there on both sides, not a skip.
C39_OperandsInSnapshot ==
    /\ Planned =>
           \A p \in DOMAIN decisions :
               /\ decisions[p].action = "UPLOAD" =>
                      p \in DOMAIN Val(cachedLocalFiles)
               /\ decisions[p].action = "DOWNLOAD" =>
                      p \in DOMAIN Val(cachedRemoteFiles)
               /\ decisions[p].action = "CONFLICT" =>
                      /\ p \in DOMAIN Val(cachedLocalFiles)
                      /\ p \in DOMAIN Val(cachedRemoteFiles)
    /\ \A i \in DOMAIN executed :
           executed[i][2] = "CONFLICT" =>
               /\ executed[i][1] \in DOMAIN vault
               /\ executed[i][1] \in DOMAIN remote

\* ---------------------------------------------------------------- C36
\* the entry of path p is backed by a file and an object that are not newer
\* than it says
EntryBacked(p) ==
    /\ p \in DOMAIN vault
    /\ p \in DOMAIN remote
    /\ syncState[p].localMtime # Undefined
    /\ syncState[p].remoteMtime # Undefined
    /\ Val(syncState[p].localMtime) >= vault[p].mtime
    /\ Val(syncState[p].remoteMtime) >= remote[p].mtime

\* C36: when a run has committed, every entry of the persisted baseline is
\* of a path that is in the vault and in the bucket, with a localMtime not
\* below the file's mtime and a remoteMtime not below the object's.
C36_BaselineBacked ==
    pc = "done" => \A p \in DOMAIN syncState : EntryBacked(p)

\* ---------------------------------------------------------------- C37
\* every entry of the baseline the run started from has both mtimes
CompleteBaseline(state) ==
    \A p \in DOMAIN state :
        state[p].localMtime # Undefined /\ state[p].remoteMtime # Undefined

\* C37: when a run that started from a baseline whose entries all have both
\* mtimes has committed, every path of its plan is in the vault and in the
\* bucket, or in neither.
C37_Convergence ==
    (pc = "done" /\ CompleteBaseline(Val(pre).syncState)) =>
        \A p \in DOMAIN decisions :
            (p \in DOMAIN vault) <=> (p \in DOMAIN remote)

\* ------------------------------------------------ retry after a conflict
\* One path, on both sides or on one, never synced or synced at time 1; the
\* cases in which both sides changed to the same mtime are the conflicts.
InitRetry ==
    /\ vault \in Maps({FileA}, [mtime : {1, 2}, content : {"L"}])
    /\ remote \in Maps({FileA}, [mtime : {1, 2}, content : {"R"}])
    /\ syncState \in Maps({FileA}, [localMtime  : {Some(1)},
                                    remoteMtime : {Some(1)}])
    /\ Idle
    /\ Installed
    /\ runs = 0
    /\ settingsData = syncState

\* the run in progress is the first one
FirstRun == runs = 1

\* the steps of a run whose collaborators fail in the first run only
RetryStep ==
    \/ GenerateMaps
    \/ Plan
    \/ \E p \in DOMAIN decisions : executeDownload(p)
    \/ \E p \in DOMAIN decisions : executeUpload(p)
    \/ \E p \in DOMAIN decisions : executeDelete(p)
    \/ \E p \in DOMAIN decisions : handleConflictCopy(p)
    \/ \E p \in DOMAIN decisions : handleConflictUpload(p)
    \/ \E p \in DOMAIN decisions : FirstRun /\ ActionFails(p)
    \/ saveUpdatedSyncState
    \/ Finally

NextRetry ==
    \/ RunSyncAccepted
    \/ RunSyncRejected
    \/ RetryStep

\* every awaited call of a run settles, and while runs are left one is started
SpecRetry ==
    InitRetry /\ [][NextRetry]_vars
        /\ WF_vars(RetryStep) /\ WF_vars(RunSyncAccepted)

\* ---------------------------------------------------------------- C35
\* a run has failed in handleConflict after createBinary of the conflict file
\* and before the upload of the local version: the copy is in the vault and
\* the remote object is the one it was made from
FailedInConflict ==
    /\ pc = "idle"
    /\ result = "failed"
    /\ \E p \in DOMAIN vault \cap DOMAIN remote :
           /\ getConflictFileName(p, remote[p].mtime) \in DOMAIN vault
           /\ remote[p].content = "R"

\* the run in progress started where FailedInConflict held: the run before
\* it failed, and it found the conflict copy and the remote object unchanged
RetryAfterConflict ==
    /\ pre # Undefined
    /\ result = "failed"
    /\ \E p \in DOMAIN Val(pre).vault \cap DOMAIN Val(pre).remote :
           /\ getConflictFileName(p, Val(pre).remote[p].mtime)
                  \in DOMAIN Val(pre).vault
           /\ Val(pre).remote[p].content = "R"

\* C35: after a run failed in a conflict resolution between the creation of
\* the conflict copy and the upload of the local version, a later run, in
\* which no collaborator fails and nothing changes from outside, does not
\* end failed.
C35_RetryDoesNotFail == RetryAfterConflict => pc # "failed"

\* ------------------------------------- the vault changes while runs go on
\* file.extension === "md"
IsMarkdown(p) == Len(p) >= 2 /\ p[Len(p) - 1] = "." /\ p[Len(p)] = "md"

\* executeUpload of the run in progress is between readBinary and the end
\* of uploadFile
Uploading ==
    /\ pc = "exec"
    /\ upload # Undefined
    /\ Val(upload).run = runs
    /\ Val(upload).path \in todo

\* executeUpload up to readBinary: the content the file has now is read
executeUploadRead(p) ==
    /\ Ready(p, {"UPLOAD"})
    /\ ~Uploading
    /\ IF p \notin DOMAIN vault
       THEN /\ Throw
            /\ UNCHANGED <<vault, remote, conflictCopy>>
       ELSE /\ upload' = Some([path    |-> p,
                               content |-> vault[p].content,
                               mtime   |-> vault[p].mtime,
                               run     |-> runs])
            /\ UNCHANGED <<vault, remote, syncState, running, pc, active,
                           rejected, cachedLocalFiles, cachedRemoteFiles,
                           stateFiles, decisions, todo, conflictCopy,
                           executed, result, pre, runs, settingsData,
                           loadFailed, prevExecuted, pluginData, returned,
                           pluginVars, pendingStateLoad, folders, listing,
                           deleteEvents, remotePrefix, elsewhere, issued>>

\* executeUpload from uploadFile on: the content read is put, and the entry
\* gets localFile.stat.mtime as the vault has it by now
executeUploadDone(p) ==
    /\ Uploading
    /\ Val(upload).path = p
    /\ p \in DOMAIN vault
    /\ \E actualRemoteMtime \in ServerTimes :
           /\ remote' = Put(remote, p, [mtime   |-> actualRemoteMtime,
                                        content |-> Val(upload).content])
           /\ stateFiles' = Some(Put(Val(stateFiles), p,
                  [localMtime  |-> Some(vault[p].mtime),
                   remoteMtime |-> Some(actualRemoteMtime)]))
    /\ Completed(p)
    /\ UNCHANGED <<vault, conflictCopy, folders>>

\* what the user's changes of the vault leave alone
LocalChangeKeeps ==
    UNCHANGED <<remote, syncState, running, pc, active, rejected,
                cachedLocalFiles, cachedRemoteFiles, stateFiles, decisions,
                todo, conflictCopy, executed, result, pre, runs,
                settingsData, loadFailed, prevExecuted, pluginData, returned,
                pluginVars, pendingStateLoad, folders, listing, upload,
                remotePrefix, elsewhere, issued>>

\* the user edits a note: new content, a later mtime
LocalEdit(p) ==
    /\ p \in DOMAIN vault
    /\ \E now \in MTimes :
           /\ now > vault[p].mtime
           /\ vault' = Put(vault, p, [mtime |-> now, content |-> "E"])
    /\ UNCHANGED deleteEvents
    /\ LocalChangeKeeps

\* the user creates a note at the top of the vault
LocalCreate(p) ==
    /\ p \notin DOMAIN vault
    /\ \E now \in MTimes \ {0} :
           vault' = Put(vault, p, [mtime |-> now, content |-> "E"])
    /\ UNCHANGED deleteEvents
    /\ LocalChangeKeeps

\* the user deletes a note that no upload is reading; the vault raises
\* "delete", and the handler registered in onload calls handleLocalDelete
\* for a markdown file, which goes on when the service is configured
LocalDelete(p) ==
    /\ p \in DOMAIN vault
    /\ ~(Uploading /\ Val(upload).path = p)
    /\ conflictCopy # Some(p)
    /\ vault' = Remove(vault, p)
    /\ deleteEvents' = IF IsMarkdown(p) /\ isConfigured
                       THEN deleteEvents \cup {p}
                       ELSE deleteEvents
    /\ LocalChangeKeeps

\* what handleLocalDelete leaves alone
HandlerKeeps ==
    UNCHANGED <<vault, syncState, running, pc, active, rejected,
                cachedLocalFiles, cachedRemoteFiles, stateFiles, decisions,
                todo, conflictCopy, executed, result, pre, runs,
                settingsData, loadFailed, prevExecuted, pluginData, returned,
                pluginVars, pendingStateLoad, folders, listing, upload,
                remotePrefix, elsewhere, issued>>

\* handleLocalDelete after listRemoteFiles: the object is deleted when the
\* listing has the path
handleLocalDelete(p) ==
    /\ p \in deleteEvents
    /\ deleteEvents' = deleteEvents \ {p}
    /\ remote' = IF p \in DOMAIN remote THEN Remove(remote, p) ELSE remote
    /\ HandlerKeeps

\* listRemoteFiles or deleteRemoteFile throws: the catch block logs
handleLocalDeleteFails(p) ==
    /\ p \in deleteEvents
    /\ deleteEvents' = deleteEvents \ {p}
    /\ UNCHANGED remote
    /\ HandlerKeeps

\* One note that was synced, or never was, and has changed on either side
\* since; the plugin is configured and one run follows.
InitLocal ==
    /\ vault \in Maps({FileA}, [mtime : MTimes \ {0}, content : {"L"}])
    /\ remote \in Maps({FileA}, [mtime : MTimes \ {0}, content : {"R"}])
    /\ syncState \in Maps({FileA},
           [localMtime  : {Some(m) : m \in MTimes \ {0}},
            remoteMtime : {Some(m) : m \in MTimes \ {0}}])
    /\ Idle
    /\ Installed
    /\ runs = MaxRuns - 1
    /\ settingsData = syncState

\* a run whose collaborators do not fail, the user's changes of the vault
\* at any time, and the delete handler
NextLocal ==
    \/ RunSyncAccepted
    \/ RunSyncRejected
    \/ GenerateMaps
    \/ Plan
    \/ \E p \in DOMAIN decisions : ~Uploading /\ executeDownload(p)
    \/ \E p \in DOMAIN decisions : executeUploadRead(p)
    \/ \E p \in DOMAIN decisions : executeUploadDone(p)
    \/ \E p \in DOMAIN decisions : ~Uploading /\ executeDelete(p)
    \/ \E p \in DOMAIN decisions : ~Uploading /\ handleConflictCopy(p)
    \/ \E p \in DOMAIN decisions : handleConflictUpload(p)
    \/ saveUpdatedSyncState
    \/ Finally
    \/ \E p \in {FileA} : LocalEdit(p)
    \/ \E p \in {FileA} : LocalCreate(p)
    \/ \E p \in {FileA} : LocalDelete(p)
    \/ \E p \in {FileA} : handleLocalDelete(p)
    \/ \E p \in {FileA} : handleLocalDeleteFails(p)

SpecLocal == InitLocal /\ [][NextLocal]_vars

\* ---------------------------------------------------------------- C32
\* C32: when an upload completes, the localMtime it records for the path is
\* the mtime the file had when its content was read, also when the file was
\* modified in between.
C32_RecordsUploadedMtime ==
    [][\A p \in DOMAIN decisions :
           (/\ Uploading
            /\ Val(upload).path = p
            /\ executed' = Append(executed, <<p, "UPLOAD">>))
           => Val(stateFiles')[p].localMtime = Some(Val(upload).mtime)]_vars

\* ---------------------------------------------------------------- C33
\* the local file is not the one the run saw in its Local snapshot
ChangedSinceSnapshot(p) ==
    /\ cachedLocalFiles # Undefined
    /\ p \in DOMAIN vault
    /\ \/ p \notin DOMAIN Val(cachedLocalFiles)
       \/ vault[p].mtime # Val(cachedLocalFiles)[p].mtime

\* C33: a DOWNLOAD or DELETE_LOCAL that a run completes leaves a local file
\* as it is when the file was created or modified after the run's Local
\* snapshot.
C33_KeepsLaterLocalChanges ==
    [][\A p \in DOMAIN decisions :
           (/\ ChangedSinceSnapshot(p)
            /\ \/ executed' = Append(executed, <<p, "DOWNLOAD">>)
               \/ executed' = Append(executed, <<p, "DELETE_LOCAL">>))
           => (p \in DOMAIN vault' /\ vault'[p] = vault[p])]_vars

\* ---------------------------------------------------------------- C31
\* the remote object is newer than the saved baseline says
ModifiedSinceBaseline(p) ==
    /\ p \in DOMAIN remote
    /\ p \in DOMAIN syncState
    /\ syncState[p].remoteMtime # Undefined
    /\ remote[p].mtime > Val(syncState[p].remoteMtime)

\* C31: no step of the program, of a run or of handleLocalDelete, deletes a
\* remote object that was modified since the baseline while its local
\* counterpart is deleted.
C31_KeepsModifiedRemote ==
    [][\A p \in DOMAIN remote :
           (ModifiedSinceBaseline(p) /\ p \notin DOMAIN vault)
           => p \in DOMAIN remote']_vars

\* ------------------------------- the settings change while a run goes on
\* Bucket and key prefix of a request that is sent now: both are read from
\* the settings object when the command is built
Address == [bucket |-> settings.bucketName, prefix |-> remotePrefix]

\* where listRemoteFiles of the run listed: the settings as onload left them
ListedAddress == [bucket |-> ConnectedSettings.bucketName, prefix |-> ""]

Sent(commands, address) ==
    issued' = issued \cup {[command |-> c, address |-> address] : c \in commands}

\* the fields of the run and of the plugin that an action of the run keeps
runFields ==
    <<running, pc, active, rejected, cachedLocalFiles, cachedRemoteFiles,
      decisions, result, pre, syncState, runs, settingsData, loadFailed,
      prevExecuted, pluginData, returned, pluginVars, pendingStateLoad,
      listing, upload, deleteEvents, remotePrefix>>

CompletedAt(p) ==
    /\ todo' = todo \ {p}
    /\ executed' = Append(executed, <<p, decisions[p].action>>)
    /\ UNCHANGED runFields

\* executeUpload: PutObject and HeadObject go to getRemoteKey(path) in
\* settings.bucketName
executeUploadAt(p) ==
    /\ Ready(p, {"UPLOAD"})
    /\ isConfigured
    /\ p \in DOMAIN vault
    /\ \E actualRemoteMtime \in ServerTimes :
           LET object == [mtime   |-> actualRemoteMtime,
                          content |-> vault[p].content]
           IN  /\ IF Address = ListedAddress
                  THEN remote' = Put(remote, p, object) /\ UNCHANGED elsewhere
                  ELSE elsewhere' = Put(elsewhere, p, object) /\ UNCHANGED remote
               /\ stateFiles' = Some(Put(Val(stateFiles), p,
                      [localMtime  |-> Some(vault[p].mtime),
                       remoteMtime |-> Some(actualRemoteMtime)]))
    /\ Sent({"PutObject", "HeadObject"}, Address)
    /\ CompletedAt(p)
    /\ UNCHANGED <<vault, conflictCopy, folders>>

\* executeDownload: GetObject takes the key of the listing, remoteFile.key,
\* and the bucket of the settings
executeDownloadAt(p) ==
    /\ Ready(p, {"DOWNLOAD"})
    /\ isConfigured
    /\ p \in DOMAIN Val(cachedRemoteFiles)
    /\ p \in DOMAIN remote
    /\ LET remoteFile == Val(cachedRemoteFiles)[p]
       IN  /\ folders' = ensureFolderExists(p)
           /\ vault' = Put(vault, p, [mtime   |-> remoteFile.mtime,
                                      content |-> remote[p].content])
           /\ stateFiles' = Some(Put(Val(stateFiles), p,
                  [localMtime  |-> Some(remoteFile.mtime),
                   remoteMtime |-> Some(remoteFile.mtime)]))
    /\ Sent({"GetObject"}, [bucket |-> settings.bucketName,
                            prefix |-> ListedAddress.prefix])
    /\ CompletedAt(p)
    /\ UNCHANGED <<remote, elsewhere, conflictCopy>>

\* executeDelete, DELETE_REMOTE: DeleteObject goes to getRemoteKey(path) in
\* settings.bucketName; the store answers alike when there is no such key
executeDeleteRemoteAt(p) ==
    /\ Ready(p, {"DELETE_REMOTE"})
    /\ isConfigured
    /\ IF Address = ListedAddress
       THEN remote' = Remove(remote, p) /\ UNCHANGED elsewhere
       ELSE elsewhere' = Remove(elsewhere, p) /\ UNCHANGED remote
    /\ stateFiles' = Some(ClearedEntry(Val(stateFiles), p, "remote"))
    /\ Sent({"DeleteObject"}, Address)
    /\ CompletedAt(p)
    /\ UNCHANGED <<vault, conflictCopy, folders>>

\* executeDelete, DELETE_LOCAL: no request is sent
executeDeleteLocal(p) ==
    /\ decisions[p].action = "DELETE_LOCAL"
    /\ executeDelete(p)

\* uploadFile, downloadFile or deleteRemoteFile called by the run when the
\* client is null: throw new Error("S3 client not configured.")
RunNotConfigured(p) ==
    /\ Ready(p, {"UPLOAD", "DOWNLOAD", "DELETE_REMOTE"})
    /\ ~isConfigured
    /\ Throw
    /\ UNCHANGED <<vault, remote, conflictCopy>>

\* S3SyncSettingTab: the bucket name is edited after the run listed the
\* bucket, and saveSettings follows
onChangeBucketName(value) ==
    /\ pc \in {"plan", "exec"}
    /\ settings' = [settings EXCEPT !["bucketName"] = value]
    /\ saveSettingsOf(settings')
    /\ UNCHANGED returned

\* S3SyncSettingTab: the remote prefix is edited after the run listed the
\* bucket, and saveSettings follows
onChangeRemotePrefix(value) ==
    /\ pc \in {"plan", "exec"}
    /\ remotePrefix' = value
    /\ syncState' = settingsData
    /\ pluginData' = Some([other |-> Some(settings), hasSyncState |-> TRUE])
    /\ client' = initializeClient(settings)
    /\ supplied' = settings
    /\ updateSyncIntervalOf(settings)
    /\ UNCHANGED <<vault, remote, running, pc, active, rejected,
                   cachedLocalFiles, cachedRemoteFiles, stateFiles, decisions,
                   todo, conflictCopy, executed, result, pre, runs,
                   settingsData, loadFailed, prevExecuted, returned, settings,
                   pendingStateLoad, folders, listing, upload, deleteEvents,
                   elsewhere, issued>>

\* FileA is or is not in the vault and FileB is or is not in the bucket;
\* each was synced at time 1 or never; one run follows.
InitPrefix ==
    /\ vault \in Maps({FileA}, [mtime : MTimes \ {0}, content : {"L"}])
    /\ remote \in Maps({FileB}, [mtime : MTimes \ {0}, content : {"R"}])
    /\ syncState \in Maps(BasePaths, [localMtime  : {Some(1)},
                                      remoteMtime : {Some(1)}])
    /\ Idle
    /\ Installed
    /\ runs = MaxRuns - 1
    /\ settingsData = syncState

\* a run whose requests succeed, and edits of the bucket name and of the
\* remote prefix while it is past its listing
NextPrefix ==
    \/ RunSyncAccepted
    \/ RunSyncRejected
    \/ GenerateMaps
    \/ Plan
    \/ \E p \in DOMAIN decisions : executeUploadAt(p)
    \/ \E p \in DOMAIN decisions : executeDownloadAt(p)
    \/ \E p \in DOMAIN decisions : executeDeleteRemoteAt(p)
    \/ \E p \in DOMAIN decisions : executeDeleteLocal(p)
    \/ \E p \in DOMAIN decisions : handleConflictCopy(p)
    \/ \E p \in DOMAIN decisions : RunNotConfigured(p)
    \/ saveUpdatedSyncState
    \/ Finally
    \/ \E value \in {"", "x"} : onChangeBucketName(value)
    \/ \E value \in {"", "p"} : onChangeRemotePrefix(value)

SpecPrefix == InitPrefix /\ [][NextPrefix]_vars

\* ---------------------------------------------------------------- C34
\* C34: every request of a run goes to the bucket and the key prefix under
\* which the run listed its Remote map, and the run does not end failed for
\* want of a client, whatever settings are saved while it is in progress.
C34_RunKeepsItsSettings ==
    /\ \A r \in issued : r.address = ListedAddress
    /\ pc = "failed" => isConfigured
====
